---- MODULE Spec2Model ----
(***************************************************************************)
(* Scoring orchestration core of the candidate screener (ai-service):      *)
(* createBatches, retryWithBackoff, mapErrorToScoringError,                *)
(* scoreBatchWithStrategy, processBatch, processParallelBatches,           *)
(* sortAndLimitCandidates and scoreCandidates.                             *)
(*                                                                         *)
(* The specifications share the operators that model the pure code:       *)
(*   SpecPartition  createBatches applied to a pool and a batch size       *)
(*   SpecRetry      one retryWithBackoff call, one step per await          *)
(*   SpecBatch      one processBatch task, one step per await              *)
(*   SpecShape      scoreBatchWithStrategy on response items of any shape  *)
(*   SpecCache      the candidate store: getCandidates and its cache       *)
(*   Spec           scoreCandidates: waves of concurrent processBatch      *)
(*                  tasks, one step per scoreBatchWithStrategy call;       *)
(*                  called on its own or by the POST handler of /api/score *)
(*   SpecClassify   mapErrorToScoringError applied to a thrown value        *)
(*   SpecHook       the useCandidateScoring hook, one step per await        *)
(*   SpecBatchFair, SpecFair   SpecBatch and Spec with the fairness that    *)
(*                  settling promises and firing timers give                *)
(***************************************************************************)
EXTENDS Integers, Sequences, FiniteSets, TLC

VARIABLES
    \* ---- SpecPartition: createBatches(items, batchSize) ----
    items,          \* the argument `items`
    size,           \* the argument `batchSize`
    parts,          \* whether the call has returned, and the array returned
    \* ---- SpecRetry / SpecBatch: retryWithBackoff(operation, maxRetries) ----
    maxRetries,     \* the argument `maxRetries`
    operation,      \* which gateway operation is wrapped
    retry,          \* the loop's locals: attempt, lastError, position, result
    opCalls,        \* history: number of invocations of operation()
    waits,          \* history: the delays waited, in order
    opLog,          \* history: per invocation, the value returned or the
                    \* kind of the error thrown (ThrowKind)
    \* ---- SpecBatch: processBatch(batch, batchIndex, ...) ----
    batch,          \* the argument `batch`
    provider,       \* process.env.LLM_PROVIDER as getLLMProvider reads it
    bpc,            \* position of the processBatch task
    structured,     \* result of scoreBatchWithStrategy(.., "structured")
    fallback,       \* result of scoreBatchWithStrategy(.., "fallback")
    outcome,        \* the settled promise of processBatch
    objectCalls,    \* history: number of generateObject calls
    textCalls,      \* history: number of generateText calls
    \* ---- Spec: scoreCandidates(jobDescription, candidates, options) ----
    candidates,     \* the argument `candidates`
    batchSize,      \* options.batchSize
    maxResults,     \* options.maxResults
    weights,        \* options.weights
    spc,            \* position of scoreCandidates / processParallelBatches
    batches,        \* createBatches(candidates, batchSize)
    loopI,          \* the wave loop's index `i`
    tasks,          \* per batch, the processBatch promise and its position
    results,        \* processParallelBatches' `results`
    pauses,         \* history: the delays awaited between waves, in order
    settleOrder,    \* history: the batches of the current batchGroup, in the
                    \* order in which their processBatch promises settled
    finalResult,    \* the ScoringResult returned
    \* ---- Spec: POST /api/score ----
    request,        \* the request body as sent
    dataset,        \* what getCandidates does when awaited
    ppc,            \* position of the POST handler
    nextResponse,   \* the NextResponse returned
    \* ---- SpecShape: scoreBatchWithStrategy on one gateway value ----
    shStrategy,     \* the argument `strategy`
    shValue,        \* what generateObject / generateText resolved to
    shpc,           \* position: returned, validated, mapped
    shValidation,   \* validatePromptResponse(text)
    shResult,       \* the ScoringResult returned
    \* ---- SpecCache: the candidate store's module state ----
    candidatesCache, \* `candidatesCache`
    lastLoadTime,   \* `lastLoadTime`
    now,            \* Date.now()
    dataFile,       \* what loadCandidatesFromFile finds on disk
    loads,          \* history: number of loadCandidatesFromFile calls
    lastCall,       \* history: the last call on the store, and the
                    \* state it found
    \* ---- SpecClassify: mapErrorToScoringError(error) ----
    clError,        \* the argument `error`
    clpc,           \* whether the call has ended
    clResult,       \* the ScoringError returned, or that the call threw
    \* ---- SpecHook: useCandidateScoring ----
    state,          \* the hook's `state`
    inFlight,       \* the scoreCandidate calls that are awaiting, in the
                    \* order of their start
    started         \* history: number of scoreCandidate calls

partVars  == <<items, size, parts>>
retryVars == <<maxRetries, operation, retry, opCalls, waits, opLog>>
batchVars == <<batch, provider, bpc, structured, fallback, outcome, objectCalls, textCalls>>
schedVars == <<candidates, batchSize, maxResults, weights, spc, batches, loopI, tasks, results, pauses, settleOrder, finalResult>>
postVars  == <<request, dataset, ppc, nextResponse>>
shapeVars == <<shStrategy, shValue, shpc, shValidation, shResult>>
cacheVars == <<candidatesCache, lastLoadTime, now, dataFile, loads, lastCall>>
classifyVars == <<clError, clpc, clResult>>
hookVars == <<state, inFlight, started>>
vars == <<partVars, retryVars, batchVars, schedVars, postVars, shapeVars, cacheVars,
          classifyVars, hookVars>>

----------------------------------------------------------------------------
(* Bounds of the model *)

\* SpecPartition: largest `items` array and largest `batchSize`
MaxItems == 5
MaxSize == 3
\* SpecRetry: largest `maxRetries` argument
MaxRetriesArg == 5
\* Spec: largest candidate pool and largest `batchSize` option
MaxPool == 4
MaxBatchSize == 2
\* Spec: largest candidate dataset behind the POST handler
MaxDataset == 2

(* DEFAULT_CONFIG *)
DEFAULT_maxRetries == 3
DEFAULT_baseDelay == 1000
DEFAULT_maxDelay == 10000
DEFAULT_batchSize == 10
DEFAULT_maxConcurrentBatches == 3

Min(a, b) == IF a <= b THEN a ELSE b

\* Math.ceil(a / b) for a >= 0, b >= 1
Ceil(a, b) == (a + b - 1) \div b

RECURSIVE Pow2(_)
Pow2(n) == IF n = 0 THEN 1 ELSE 2 * Pow2(n - 1)

----------------------------------------------------------------------------
(* Candidates *)

\* an id no candidate of any pool has
UnknownId == MaxPool + MaxItems + 1

\* a Candidate record: the id and the fields that scoring only copies
Candidate(i) == [id |-> i, name |-> <<"name", i>>]

\* array.slice(from, to) with 0-based, end-exclusive indices
Slice(s, from, to) ==
    LET lo == Min(from, Len(s))
        hi == Min(to, Len(s))
    IN  IF hi <= lo THEN <<>> ELSE [k \in 1..(hi - lo) |-> s[lo + k]]

\* createBatches with the slice bounds off by one batch: the last batch is lost
createBatchesDropLast(its, bsize) ==
    [n \in 1..(Len(its) \div bsize) |->
        Slice(its, (n - 1) * bsize, n * bsize)]

createBatches(its, bsize) ==
    [n \in 1..Ceil(Len(its), bsize) |->
        Slice(its, (n - 1) * bsize, n * bsize)]

----------------------------------------------------------------------------
(* Thrown values and their classification *)

\* a value thrown by a gateway call or by the pipeline's own code; `seq` is
\* the identity of the thrown object (the invocation that threw it)
\* a thrown value: whether it is an object, its status, code and name,
\* whether it has issues, whether its message is a string that includes
\* "JSON", and what typeof says of its message
Thrown(isObject, status, code, name, issues, jsonMsg) ==
    [isObject |-> isObject, status |-> status, code |-> code, name |-> name,
     issues |-> issues, jsonMsg |-> jsonMsg, message |-> "string", seq |-> 0]

\* the same value with a message that is missing, or neither a string nor
\* missing (a number, an object)
WithMessage(error, type) == [error EXCEPT !.message = type, !.jsonMsg = FALSE]

ErrRateLimit == Thrown(TRUE, 429, "", "Error", FALSE, FALSE)
ErrQuota     == Thrown(TRUE, 402, "", "Error", FALSE, FALSE)
ErrNetwork   == Thrown(TRUE, 0, "ECONNREFUSED", "Error", FALSE, FALSE)
ErrZod       == Thrown(TRUE, 0, "", "ZodError", TRUE, FALSE)
ErrSyntax    == Thrown(TRUE, 0, "", "SyntaxError", FALSE, TRUE)
ErrServer    == Thrown(TRUE, 500, "", "Error", FALSE, FALSE)
ErrString    == Thrown(FALSE, 0, "", "", FALSE, FALSE)
\* `new Error(...)` thrown by createScoredCandidate, createCandidateScore, getAIModel
ErrPlain     == Thrown(TRUE, 0, "", "Error", FALSE, FALSE)

\* what a gateway call may throw
GatewayErrors ==
    {ErrRateLimit, ErrQuota, ErrNetwork, ErrZod, ErrSyntax, ErrServer, ErrString}

\* the uninitialised `let lastError`
Undefined == Thrown(FALSE, 0, "", "undefined", FALSE, FALSE)

isAPIError(error) == error.isObject

ErrorTypes ==
    {"RATE_LIMIT", "QUOTA_EXCEEDED", "NETWORK_ERROR", "VALIDATION_ERROR",
     "PARSE_ERROR", "UNKNOWN_ERROR"}

ScoringError(type) == [type |-> type]

\* error.message?.includes("JSON") is reached and `includes` is no function:
\* the call throws a TypeError
mapErrorToScoringErrorThrows(error) ==
    /\ isAPIError(error)
    /\ error.status # 429
    /\ ~(error.status = 402 \/ error.code = "insufficient_quota")
    /\ error.code \notin {"ECONNREFUSED", "ENOTFOUND", "TIMEOUT"}
    /\ ~(error.name = "ZodError" \/ error.issues)
    /\ error.name = "SyntaxError"
    /\ error.message = "other"

\* the ScoringError returned, where the call returns
mapErrorToScoringError(error) ==
    IF ~isAPIError(error) THEN ScoringError("UNKNOWN_ERROR")
    ELSE IF error.status = 429 THEN ScoringError("RATE_LIMIT")
    ELSE IF error.status = 402 \/ error.code = "insufficient_quota"
        THEN ScoringError("QUOTA_EXCEEDED")
    ELSE IF error.code \in {"ECONNREFUSED", "ENOTFOUND", "TIMEOUT"}
        THEN ScoringError("NETWORK_ERROR")
    ELSE IF error.name = "ZodError" \/ error.issues
        THEN ScoringError("VALIDATION_ERROR")
    ELSE IF error.name = "SyntaxError" /\ error.jsonMsg
        THEN ScoringError("PARSE_ERROR")
    ELSE ScoringError("UNKNOWN_ERROR")

----------------------------------------------------------------------------
(* What the LLM gateway may return *)

\* typeof / Array.isArray of an item and of its five properties
JsTypes(item, id, score, highlights, reasoning, matchedSkills) ==
    [item |-> item, id |-> id, score |-> score, highlights |-> highlights,
     reasoning |-> reasoning, matchedSkills |-> matchedSkills]

WellTyped == JsTypes("object", "string", "number", "array", "string", "array")

Item(id, score) ==
    [id |-> id, score |-> score, highlights |-> <<"h1">>,
     reasoning |-> "matches the role", matchedSkills |-> <<"ts">>,
     js |-> WellTyped]

\* scores the model may give (within the schema's 0..100)
SampleScores == {35, 80}

Ids(b) == {b[k].id : k \in 1..Len(b)}

ItemsFor(b) == {Item(id, sc) : id \in Ids(b) \cup {UnknownId}, sc \in SampleScores}

\* the `candidates` arrays a response for batch b may hold
ResponsesFor(b) == UNION {[1..n -> ItemsFor(b)] : n \in 0..Len(b)}

\* generateObject resolves to an object that passed AIScoreResponseSchema
ObjectsFor(b) == {[candidates |-> r] : r \in ResponsesFor(b)}

\* generateText resolves to any text: not JSON at all, JSON without a
\* `candidates` array, or JSON with one (whose items may break the shape)
\* a text: whether JSON.parse accepts it, the kind of value it parses to,
\* whether that value has a `candidates` array, and the array
Text(json, root, hasCandidates, cs) ==
    [json |-> json, root |-> root, hasCandidates |-> hasCandidates,
     candidates |-> cs]

TextsFor(b) ==
    {Text(FALSE, "none", FALSE, <<>>), Text(TRUE, "object", FALSE, <<>>)}
    \cup {Text(TRUE, "object", TRUE, r) :
            r \in ResponsesFor(b) \cup {<<Item(b[1].id, 101)>>}}

OperationValues(op, b) ==
    IF op = "generateObject" THEN ObjectsFor(b) ELSE TextsFor(b)

----------------------------------------------------------------------------
(* Mapping a response to ScoredCandidates *)

\* createCandidateScore: throws outside 0..100
createCandidateScore(score) ==
    IF score < 0 \/ score > 100
    THEN [threw |-> TRUE, value |-> score]
    ELSE [threw |-> FALSE, value |-> score]

\* originalCandidates.find((c) => c.id === id): the first match, 0 if none
FindIndex(originalCandidates, id) ==
    IF \E k \in 1..Len(originalCandidates) : originalCandidates[k].id = id
    THEN CHOOSE k \in 1..Len(originalCandidates) :
           /\ originalCandidates[k].id = id
           /\ \A j \in 1..(k - 1) : originalCandidates[j].id # id
    ELSE 0

\* createScoredCandidate making a record for an id no candidate has
createScoredCandidateFabricates(candidate, originalCandidates) ==
    LET k == FindIndex(originalCandidates, candidate.id)
    IN  IF createCandidateScore(candidate.score).threw
        THEN [threw |-> TRUE]
        ELSE [threw |-> FALSE,
              value |->
                [id |-> candidate.id,
                 name |-> IF k = 0 THEN <<"name", 0>> ELSE originalCandidates[k].name,
                 score |-> createCandidateScore(candidate.score).value,
                 highlights |-> candidate.highlights,
                 reasoning |-> IF candidate.reasoning = ""
                               THEN "No reasoning provided"
                               ELSE candidate.reasoning,
                 matchedSkills |-> candidate.matchedSkills]]

\* createScoredCandidate writing over a field of the candidate
createScoredCandidateRenames(candidate, originalCandidates) ==
    LET k == FindIndex(originalCandidates, candidate.id)
    IN  IF k = 0 \/ createCandidateScore(candidate.score).threw
        THEN [threw |-> TRUE]
        ELSE [threw |-> FALSE,
              value |->
                [id |-> originalCandidates[k].id,
                 name |-> <<"name", candidate.score>>,
                 score |-> createCandidateScore(candidate.score).value,
                 highlights |-> candidate.highlights,
                 reasoning |-> IF candidate.reasoning = ""
                               THEN "No reasoning provided"
                               ELSE candidate.reasoning,
                 matchedSkills |-> candidate.matchedSkills]]

\* createScoredCandidate: throws on an unknown id or a score out of range
createScoredCandidate(candidate, originalCandidates) ==
    LET k == FindIndex(originalCandidates, candidate.id)
    IN  IF k = 0 \/ createCandidateScore(candidate.score).threw
        THEN [threw |-> TRUE]
        ELSE [threw |-> FALSE,
              value |->
                [id |-> originalCandidates[k].id,
                 name |-> originalCandidates[k].name,
                 score |-> createCandidateScore(candidate.score).value,
                 highlights |-> candidate.highlights,
                 reasoning |-> IF candidate.reasoning = ""
                               THEN "No reasoning provided"
                               ELSE candidate.reasoning,
                 matchedSkills |-> candidate.matchedSkills]]

Success(data) == [success |-> TRUE, data |-> data]
Failure(error) == [success |-> FALSE, error |-> error]

\* candidates.map(createScoredCandidate) inside the try block of
\* scoreBatchWithStrategy: a throw of any item is caught and classified
MapCandidates(response, originalCandidates) ==
    LET mapped == [k \in 1..Len(response) |->
                     createScoredCandidate(response[k], originalCandidates)]
    IN  IF \E k \in 1..Len(response) : mapped[k].threw
        THEN Failure(mapErrorToScoringError(ErrPlain))
        ELSE Success([k \in 1..Len(response) |-> mapped[k].value])

\* the id that stands for the empty string
EmptyId == 0

\* validatePromptResponse, the body of the for statement: the error the item
\* is returned with, "" if it passes.  Reading a property of null throws a
\* TypeError, which the catch block reports
ItemError(c) ==
    IF c.js.item = "null" THEN "Invalid JSON"
    ELSE IF c.js.item # "object" \/ c.js.id # "string" \/ c.id = EmptyId
    THEN "Each candidate must have valid 'id' string"
    ELSE IF c.js.score # "number" \/ c.score < 0 \/ c.score > 100
    THEN "Each candidate must have 'score' number between 0-100"
    ELSE IF c.js.highlights # "array"
    THEN "Each candidate must have 'highlights' array"
    ELSE IF c.js.reasoning # "string" \/ c.reasoning = ""
    THEN "Each candidate must have 'reasoning' string"
    ELSE IF c.js.matchedSkills # "array"
    THEN "Each candidate must have 'matchedSkills' array"
    ELSE ""

\* validatePromptResponse that takes the first item's word for all
validatePromptResponseFirstOnly(text) ==
    IF ~text.json \/ text.root = "null"
    THEN [isValid |-> FALSE, error |-> "Invalid JSON"]
    ELSE IF text.root # "object" \/ ~text.hasCandidates
    THEN [isValid |-> FALSE, error |-> "Response must have 'candidates' array"]
    ELSE IF text.candidates # <<>> /\ ItemError(text.candidates[1]) # ""
    THEN [isValid |-> FALSE, error |-> ItemError(text.candidates[1])]
    ELSE [isValid |-> TRUE, error |-> ""]

\* validatePromptResponse: JSON.parse, the `candidates` array, then the
\* items in order up to the first that fails; nothing is thrown
validatePromptResponse(text) ==
    IF ~text.json \/ text.root = "null"
    THEN [isValid |-> FALSE, error |-> "Invalid JSON"]
    ELSE IF text.root # "object" \/ ~text.hasCandidates
    THEN [isValid |-> FALSE, error |-> "Response must have 'candidates' array"]
    ELSE LET bad == {k \in 1..Len(text.candidates) :
                       ItemError(text.candidates[k]) # ""}
         IN  IF bad # {}
             THEN [isValid |-> FALSE,
                   error |-> ItemError(text.candidates[
                               CHOOSE k \in bad : \A j \in bad : k <= j])]
             ELSE [isValid |-> TRUE, error |-> ""]

\* AIScoreResponseSchema accepts the object's `candidates`
AIScoreResponseSchema(cs) ==
    \A k \in 1..Len(cs) :
        /\ cs[k].js = WellTyped
        /\ cs[k].score >= 0 /\ cs[k].score <= 100
        /\ \A h \in 1..Len(cs[k].highlights) : Len(cs[k].highlights[h]) >= 1
        /\ Len(cs[k].reasoning) >= 10

\* scoreBatchWithStrategy reporting a rejected text as an unknown error
ScoreBatchSettledUnknown(strategy, rs, originalCandidates) ==
    IF rs.pc = "thrown" THEN Failure(mapErrorToScoringError(rs.lastError))
    ELSE IF strategy = "structured"
    THEN MapCandidates(rs.value.candidates, originalCandidates)
    ELSE IF ~validatePromptResponse(rs.value).isValid
    THEN Failure(ScoringError("UNKNOWN_ERROR"))
    ELSE MapCandidates(rs.value.candidates, originalCandidates)

\* scoreBatchWithStrategy from the settling of retryWithBackoff on: rs is the
\* settled loop
ScoreBatchSettled(strategy, rs, originalCandidates) ==
    IF rs.pc = "thrown" THEN Failure(mapErrorToScoringError(rs.lastError))
    ELSE IF strategy = "structured"
    THEN MapCandidates(rs.value.candidates, originalCandidates)
    ELSE IF ~validatePromptResponse(rs.value).isValid
    THEN Failure([type |-> "PARSE_ERROR", rawResponse |-> rs.value])
    ELSE MapCandidates(rs.value.candidates, originalCandidates)

\* processBatch deciding for the fallback on every failure
NeedsFallbackAlways(result) == ~result.success

\* processBatch never deciding for the fallback
NeedsFallbackNever(result) == FALSE

\* processBatch: the test that sends a batch to the fallback strategy
NeedsFallback(result) == ~result.success /\ result.error.type = "PARSE_ERROR"

\* processBatch: the BatchResult made of the last strategy's result
BatchResult(result, batchIndex) ==
    IF result.success
    THEN [success |-> TRUE, data |-> result.data]
    ELSE [success |-> FALSE, error |-> result.error, batchIndex |-> batchIndex]

\* getAIModel: throws for a provider that is neither openai nor anthropic
getAIModelThrows(name) == name \notin {"openai", "anthropic"}

----------------------------------------------------------------------------
(* retryWithBackoff: the loop as a transition system over its locals.      *)
(* pc: "idle" not called, "operation" awaiting operation(), "sleep429"     *)
(* awaiting the timer of the 429 branch, "sleep" awaiting the timer of the *)
(* general branch, "returned" / "thrown" the promise has settled.          *)

calculateDelay(attempt) ==
    Min(DEFAULT_baseDelay * Pow2(attempt), DEFAULT_maxDelay)

RetryIdle ==
    [attempt |-> 0, lastError |-> Undefined, pc |-> "idle", timer |-> 0,
     value |-> [candidates |-> <<>>]]

\* the test letting one iteration too many through
RetryLoopTestExtra(rs, mr) ==
    [rs EXCEPT !.pc = IF rs.attempt <= mr + 1 THEN "operation" ELSE "thrown",
               !.timer = 0]

\* the for statement's test, entered with `attempt` already set
RetryLoopTest(rs, mr) ==
    [rs EXCEPT !.pc = IF rs.attempt <= mr THEN "operation" ELSE "thrown",
               !.timer = 0]

\* let lastError; attempt = 0; first test
RetryStart(mr) == RetryLoopTest(RetryIdle, mr)

\* attempt++ and the test
RetryLoopNext(rs, mr) == RetryLoopTest([rs EXCEPT !.attempt = @ + 1], mr)

\* return await operation()
RetryOnReturn(rs, v) == [rs EXCEPT !.pc = "returned", !.value = v]

\* the catch block with the retry only for status 429: anything else fails fast
RetryOnThrowFailFast(rs, error, mr) ==
    LET r1 == [rs EXCEPT !.lastError = error]
    IN  IF isAPIError(error) /\ error.status = 429 /\ rs.attempt < mr
        THEN [r1 EXCEPT !.pc = "sleep429", !.timer = calculateDelay(rs.attempt)]
        ELSE [r1 EXCEPT !.pc = "thrown", !.timer = 0]

\* the catch block keeping the first error instead of the last
RetryOnThrowKeepFirst(rs, error, mr) ==
    LET r1 == IF rs.attempt = 0 THEN [rs EXCEPT !.lastError = error] ELSE rs
    IN  IF rs.attempt < mr
        THEN [r1 EXCEPT !.pc = "sleep", !.timer = calculateDelay(rs.attempt)]
        ELSE RetryLoopNext(r1, mr)

\* the catch block giving up at once on a SyntaxError mentioning JSON
RetryOnThrowParseFailFast(rs, error, mr) ==
    LET r1 == [rs EXCEPT !.lastError = error]
    IN  IF isAPIError(error) /\ error.name = "SyntaxError" /\ error.jsonMsg
        THEN [r1 EXCEPT !.pc = "thrown", !.timer = 0]
        ELSE IF rs.attempt < mr
        THEN [r1 EXCEPT !.pc = IF error.status = 429 THEN "sleep429" ELSE "sleep",
                        !.timer = calculateDelay(rs.attempt)]
        ELSE RetryLoopNext(r1, mr)

\* the catch block holding on to a SyntaxError mentioning JSON once one was
\* caught
RetryOnThrowKeepParse(rs, error, mr) ==
    LET held == /\ rs.lastError.isObject
                /\ rs.lastError.name = "SyntaxError"
                /\ rs.lastError.jsonMsg
        r1 == IF held THEN rs ELSE [rs EXCEPT !.lastError = error]
    IN  IF isAPIError(error) /\ error.status = 429 /\ rs.attempt < mr
        THEN [r1 EXCEPT !.pc = "sleep429", !.timer = calculateDelay(rs.attempt)]
        ELSE IF rs.attempt < mr
        THEN [r1 EXCEPT !.pc = "sleep", !.timer = calculateDelay(rs.attempt)]
        ELSE RetryLoopNext(r1, mr)

\* the catch block up to its first await (or to the end of the loop)
RetryOnThrow(rs, error, mr) ==
    LET r1 == [rs EXCEPT !.lastError = error]
    IN  IF isAPIError(error) /\ error.status = 429 /\ rs.attempt < mr
        THEN [r1 EXCEPT !.pc = "sleep429", !.timer = calculateDelay(rs.attempt)]
        ELSE IF rs.attempt < mr
        THEN [r1 EXCEPT !.pc = "sleep", !.timer = calculateDelay(rs.attempt)]
        ELSE RetryLoopNext(r1, mr)

\* the timer of the 429 branch without its `continue`: the general branch
\* waits a second time
RetryOnTimerNoContinue(rs, mr) ==
    IF rs.pc = "sleep429"
    THEN [rs EXCEPT !.pc = "sleep", !.timer = calculateDelay(rs.attempt)]
    ELSE RetryLoopNext(rs, mr)

\* a timer fires: `continue` (429 branch) or the end of the catch block
RetryOnTimer(rs, mr) == RetryLoopNext(rs, mr)

\* history: rs2 is the loop after a step; it has invoked operation() anew
\* exactly when it is awaiting it
Invoked(rs2) == IF rs2.pc = "operation" THEN 1 ELSE 0

CountCalls(rs2) ==
    /\ opCalls' = opCalls + Invoked(rs2)
    /\ objectCalls' =
         objectCalls + (IF operation = "generateObject" THEN Invoked(rs2) ELSE 0)
    /\ textCalls' =
         textCalls + (IF operation = "generateText" THEN Invoked(rs2) ELSE 0)

\* history: what a rejection was, as the loop (status 429) and the strategy
\* choice (a SyntaxError mentioning JSON) tell rejections apart
ThrowKind(e) ==
    IF isAPIError(e) /\ e.status = 429 THEN "429"
    ELSE IF isAPIError(e) /\ e.name = "SyntaxError" /\ e.jsonMsg THEN "parse"
    ELSE "other"

\* the gateway call resolves
OperationReturns ==
    /\ retry.pc = "operation"
    /\ \E v \in OperationValues(operation, batch) :
         /\ retry' = RetryOnReturn(retry, v)
         /\ opLog' = Append(opLog, [kind |-> "ok", value |-> v])
    /\ UNCHANGED <<maxRetries, operation, opCalls, waits>>
    /\ UNCHANGED <<classifyVars, hookVars, shapeVars, cacheVars, postVars, partVars, batchVars, schedVars>>

\* the gateway call rejects; the catch block runs up to its await
OperationThrows ==
    /\ retry.pc = "operation"
    /\ \E e \in GatewayErrors :
         LET error == [e EXCEPT !.seq = opCalls]
             rs2 == RetryOnThrow(retry, error, maxRetries)
         IN  /\ retry' = rs2
             /\ opLog' = Append(opLog, [kind |-> ThrowKind(e)])
             /\ waits' = IF rs2.pc \in {"sleep429", "sleep"}
                         THEN Append(waits, rs2.timer) ELSE waits
             /\ CountCalls(rs2)
    /\ UNCHANGED <<maxRetries, operation>>
    /\ UNCHANGED <<classifyVars, hookVars, shapeVars, cacheVars, postVars, partVars, schedVars, batch, provider, bpc, structured, fallback, outcome>>

\* setTimeout fires; the loop goes on to its next await
TimerFires ==
    /\ retry.pc \in {"sleep429", "sleep"}
    /\ LET rs2 == RetryOnTimer(retry, maxRetries)
       IN  /\ retry' = rs2
           /\ waits' = IF rs2.pc \in {"sleep429", "sleep"}
                       THEN Append(waits, rs2.timer) ELSE waits
           /\ CountCalls(rs2)
    /\ UNCHANGED <<maxRetries, operation, opLog>>
    /\ UNCHANGED <<classifyVars, hookVars, shapeVars, cacheVars, postVars, partVars, schedVars, batch, provider, bpc, structured, fallback, outcome>>

\* retryWithBackoff(operation, maxRetries) is called
RetryCall ==
    /\ retry.pc = "idle"
    /\ bpc = "none"
    /\ LET rs2 == RetryStart(maxRetries)
       IN  /\ retry' = rs2
           /\ CountCalls(rs2)
    /\ UNCHANGED <<maxRetries, operation, waits, opLog>>
    /\ UNCHANGED <<classifyVars, hookVars, shapeVars, cacheVars, postVars, partVars, schedVars, batch, provider, bpc, structured, fallback, outcome>>

----------------------------------------------------------------------------
(* Scoring weights and the prompts *)

\* a fraction is held in ten-thousandths: One is the fraction 1
One == 10000

\* a criterion that was not supplied (undefined)
Absent == 0 - 1

Criteria == {"skillsMatch", "experienceLevel", "education", "portfolio", "availability"}

\* a `weights` value: not given at all, or an object of five optional fractions
Weights(given, sk, ex, ed, po, av) ==
    [given |-> given, skillsMatch |-> sk, experienceLevel |-> ex,
     education |-> ed, portfolio |-> po, availability |-> av]

NoWeights == Weights(FALSE, Absent, Absent, Absent, Absent, Absent)

\* z.number().min(0).max(1).optional() on each criterion
WeightsInRange(w) ==
    \A c \in Criteria : w[c] = Absent \/ (w[c] >= 0 /\ w[c] <= One)

\* ScoringWeightsSchema: five fractions in [0, 1] whose sum is within 0.001
\* of 1
ScoringWeightsSchema(w) ==
    LET sum == w.skillsMatch + w.experienceLevel + w.education
               + w.portfolio + w.availability
        dev == IF sum >= One THEN sum - One ELSE One - sum
    IN  /\ \A c \in Criteria : w[c] >= 0 /\ w[c] <= One
        /\ dev < One \div 1000

\* a ?? b
Nullish(a, b) == IF a = Absent THEN b ELSE a

\* a || b: undefined and 0 are falsy
Falsy(a, b) == IF a = Absent \/ a = 0 THEN b ELSE a

\* the handler's fullWeights
FullWeightsDefault == Weights(TRUE, 4000, 2500, 1500, 1000, 1000)

fullWeights(w) ==
    [c \in DOMAIN w |->
        IF c = "given" THEN TRUE ELSE Nullish(w[c], FullWeightsDefault[c])]

\* the prompt's defaults
PromptWeightsDefault == Weights(TRUE, 4000, 2500, 1500, 1000, 1000)

\* no generate call is pending
NoPrompt == [kind |-> "none", weightsText |-> <<>>]

\* ${(w || d) * 100}%: the percentage, in ten-thousandths of a percent
PercentOf(a, d) == Falsy(a, d) * 100

\* createScoringPrompt: the CUSTOM SCORING WEIGHTS lines, in the order of the
\* template, or no such lines where weights is undefined
createScoringPrompt(w) ==
    [kind |-> "scoring",
     weightsText |->
        IF w.given
        THEN <<PercentOf(w.skillsMatch, PromptWeightsDefault.skillsMatch),
               PercentOf(w.experienceLevel, PromptWeightsDefault.experienceLevel),
               PercentOf(w.education, PromptWeightsDefault.education),
               PercentOf(w.portfolio, PromptWeightsDefault.portfolio),
               PercentOf(w.availability, PromptWeightsDefault.availability)>>
        ELSE <<>>]

\* createConstrainedPrompt takes no weights
createConstrainedPrompt == [kind |-> "constrained", weightsText |-> <<>>]

----------------------------------------------------------------------------
(* SpecPartition *)

\* arrays without repeated elements over 1..MaxItems
Pools(n) ==
    UNION {{s \in [1..k -> 1..n] : \A a, b \in 1..k : a # b => s[a] # s[b]} :
             k \in 0..n}

NoResult == [success |-> FALSE, error |-> ScoringError("none")]

NotReturned == [returned |-> FALSE, batches |-> <<>>]

IdlePartition == items = <<>> /\ size = 1 /\ parts = NotReturned

IdleRetry ==
    /\ maxRetries = DEFAULT_maxRetries
    /\ operation = "generateObject"
    /\ retry = RetryIdle
    /\ opCalls = 0
    /\ waits = <<>>
    /\ opLog = <<>>

IdleBatch ==
    /\ batch = <<Candidate(1)>>
    /\ provider = "openai"
    /\ bpc = "none"
    /\ structured = NoResult
    /\ fallback = NoResult
    /\ outcome = NoResult
    /\ objectCalls = 0
    /\ textCalls = 0

IdleSched ==
    /\ candidates = <<>>
    /\ batchSize = 1
    /\ maxResults = 1
    /\ weights = NoWeights
    /\ spc = "none"
    /\ batches = <<>>
    /\ loopI = 0
    /\ tasks = <<>>
    /\ results = <<>>
    /\ pauses = <<>>
    /\ settleOrder = <<>>
    /\ finalResult = NoResult

NoRequest ==
    [json |-> FALSE, jdLen |-> 0, maxResultsGiven |-> FALSE, maxResults |-> 0,
     weights |-> NoWeights]

NoDataset == [throws |-> FALSE, candidates |-> <<>>]

NoResponse ==
    [status |-> 0, ok |-> FALSE, error |-> ScoringError("none"),
     candidates |-> <<>>, totalProcessed |-> 0]

IdlePost ==
    /\ request = NoRequest
    /\ dataset = NoDataset
    /\ ppc = "none"
    /\ nextResponse = NoResponse

NoValidation == [isValid |-> FALSE, error |-> "none"]

IdleShape ==
    /\ shStrategy = "structured"
    /\ shValue = Text(FALSE, "none", FALSE, <<>>)
    /\ shpc = "none"
    /\ shValidation = NoValidation
    /\ shResult = NoResult

\* let candidatesCache = null; let lastLoadTime = 0
NoCache == [loaded |-> FALSE, data |-> <<>>]

\* a call on the store: the clock, the cache, the load time, the load count
\* and the data file it found; what it did; for a getCandidates, whether it
\* followed an invalidateCandidatesCache
Call(kind, threw, returned, afterInvalidate) ==
    [kind |-> kind, at |-> now, cacheBefore |-> candidatesCache,
     loadTimeBefore |-> lastLoadTime, loadsBefore |-> loads,
     file |-> dataFile, threw |-> threw, returned |-> returned,
     afterInvalidate |-> afterInvalidate]

NoCall ==
    [kind |-> "none", at |-> 0, cacheBefore |-> NoCache, loadTimeBefore |-> 0,
     loadsBefore |-> 0, file |-> [throws |-> FALSE, candidates |-> <<>>],
     threw |-> FALSE, returned |-> <<>>, afterInvalidate |-> FALSE]

IdleCache ==
    /\ candidatesCache = NoCache
    /\ lastLoadTime = 0
    /\ now = 0
    /\ dataFile = [throws |-> FALSE, candidates |-> <<>>]
    /\ loads = 0
    /\ lastCall = NoCall

NoClassified == [threw |-> FALSE, value |-> ScoringError("none")]

IdleClassify ==
    /\ clError = ErrPlain
    /\ clpc = "none"
    /\ clResult = NoClassified

\* error: null, or a message
NoError == [isNull |-> TRUE, message |-> ""]
ErrorMessage(m) == [isNull |-> FALSE, message |-> m]

\* results: null, or the candidates of the response to request number `of`
NoResults == [isNull |-> TRUE, of |-> 0]
ResultsOf(r) == [isNull |-> FALSE, of |-> r]

\* useState's initial value; a job description is held by its length after
\* trim(), the statistics of a response by the number of its request
InitialFormState ==
    [jobDescription |-> 0, isLoading |-> FALSE, error |-> NoError,
     results |-> NoResults, totalProcessed |-> 0]

IdleHook ==
    /\ state = InitialFormState
    /\ inFlight = <<>>
    /\ started = 0

InitPartition ==
    /\ IdleClassify
    /\ IdleHook
    /\ IdleSched
    /\ IdlePost
    /\ IdleShape
    /\ IdleCache
    /\ items \in Pools(MaxItems)
    /\ size \in 1..MaxSize
    /\ parts = NotReturned
    /\ IdleRetry
    /\ IdleBatch

CreateBatches ==
    /\ ~parts.returned
    /\ parts' = [returned |-> TRUE, batches |-> createBatches(items, size)]
    /\ UNCHANGED <<classifyVars, hookVars, items, size, retryVars, batchVars, schedVars, postVars, shapeVars, cacheVars>>

NextPartition == CreateBatches

SpecPartition == InitPartition /\ [][NextPartition]_vars

----------------------------------------------------------------------------
(* SpecRetry *)

InitRetry ==
    /\ IdleClassify
    /\ IdleHook
    /\ IdleSched
    /\ IdlePost
    /\ IdleShape
    /\ IdleCache
    /\ IdlePartition
    /\ IdleBatch
    /\ maxRetries \in 0..MaxRetriesArg
    /\ operation \in {"generateObject", "generateText"}
    /\ retry = RetryIdle
    /\ opCalls = 0
    /\ waits = <<>>
    /\ opLog = <<>>

NextRetry ==
    \/ RetryCall
    \/ OperationReturns
    \/ OperationThrows
    \/ TimerFires

SpecRetry == InitRetry /\ [][NextRetry]_vars

----------------------------------------------------------------------------
(* SpecBatch: one processBatch task *)

\* batches as createBatches cuts them from a pool
SampleBatches == {<<Candidate(1)>>, <<Candidate(1), Candidate(2)>>}

\* process.env.LLM_PROVIDER
ProviderNames == {"openai", "local"}

\* the fallback calling the structured strategy once more
EnterRetryStructured(op) ==
    /\ operation' = "generateObject"
    /\ retry' = RetryStart(DEFAULT_maxRetries)
    /\ opCalls' = 1
    /\ waits' = <<>>
    /\ opLog' = <<>>
    /\ objectCalls' = objectCalls + 1
    /\ textCalls' = textCalls

\* retryWithBackoff is entered by scoreBatchWithStrategy with the default
\* maxRetries; the first operation() is invoked in the same step
EnterRetry(op) ==
    /\ operation' = op
    /\ retry' = RetryStart(DEFAULT_maxRetries)
    /\ opCalls' = 1
    /\ waits' = <<>>
    /\ opLog' = <<>>
    /\ objectCalls' = objectCalls + (IF op = "generateObject" THEN 1 ELSE 0)
    /\ textCalls' = textCalls + (IF op = "generateText" THEN 1 ELSE 0)

\* processBatch is called and runs to its first await: the structured
\* scoreBatchWithStrategy resolves the model (outside its try block) and
\* issues generateObject
StartBatch ==
    /\ bpc = "start"
    /\ IF getAIModelThrows(provider)
       THEN /\ bpc' = "rejected"
            /\ outcome' = [rejected |-> TRUE, reason |-> ErrPlain]
            /\ UNCHANGED <<operation, retry, opCalls, waits, opLog, objectCalls, textCalls>>
       ELSE /\ bpc' = "structured"
            /\ EnterRetry("generateObject")
            /\ UNCHANGED outcome
    /\ UNCHANGED <<classifyVars, hookVars, shapeVars, cacheVars, postVars, partVars, schedVars, maxRetries, batch, provider, structured, fallback>>

\* the structured strategy settles; processBatch either starts the fallback
\* strategy (which issues generateText) or returns
StructuredSettles ==
    /\ bpc = "structured"
    /\ retry.pc \in {"returned", "thrown"}
    /\ LET result == ScoreBatchSettled("structured", retry, batch)
       IN  /\ structured' = result
           /\ IF NeedsFallback(result)
              THEN /\ bpc' = "fallback"
                   /\ EnterRetry("generateText")
                   /\ UNCHANGED outcome
              ELSE /\ bpc' = "done"
                   /\ outcome' = BatchResult(result, 0)
                   /\ UNCHANGED <<operation, retry, opCalls, waits, opLog, objectCalls, textCalls>>
    /\ UNCHANGED <<classifyVars, hookVars, shapeVars, cacheVars, postVars, partVars, schedVars, maxRetries, batch, provider, fallback>>

\* the fallback strategy settles; processBatch returns
FallbackSettles ==
    /\ bpc = "fallback"
    /\ retry.pc \in {"returned", "thrown"}
    /\ LET result == ScoreBatchSettled("fallback", retry, batch)
       IN  /\ fallback' = result
           /\ bpc' = "done"
           /\ outcome' = BatchResult(result, 0)
    /\ UNCHANGED <<classifyVars, hookVars, shapeVars, cacheVars, postVars, partVars, schedVars, retryVars, batch, provider, structured, objectCalls, textCalls>>

InitBatch ==
    /\ IdleClassify
    /\ IdleHook
    /\ IdleSched
    /\ IdlePost
    /\ IdleShape
    /\ IdleCache
    /\ IdlePartition
    /\ IdleRetry
    /\ batch \in SampleBatches
    /\ provider \in ProviderNames
    /\ bpc = "start"
    /\ structured = NoResult
    /\ fallback = NoResult
    /\ outcome = NoResult
    /\ objectCalls = 0
    /\ textCalls = 0

NextBatch ==
    \/ StartBatch
    \/ OperationReturns
    \/ OperationThrows
    \/ TimerFires
    \/ StructuredSettles
    \/ FallbackSettles

SpecBatch == InitBatch /\ [][NextBatch]_vars

\* SpecBatchFair: every gateway call returns or throws, every timer fires
\* and the continuations run
SpecBatchFair ==
    /\ SpecBatch
    /\ WF_vars(OperationReturns \/ OperationThrows)
    /\ WF_vars(TimerFires)
    /\ WF_vars(StartBatch \/ StructuredSettles \/ FallbackSettles)

----------------------------------------------------------------------------
(* SpecClassify: mapErrorToScoringError applied to a thrown value            *)

\* SpecClassify: the HTTP statuses above 0 that a thrown object may carry
\* are the two the function tests and MaxOtherStatus others
MaxOtherStatus == 1

\* thrown values: every combination of the properties the function reads
ThrownValues ==
    {WithMessage(Thrown(o, st, co, na, is, FALSE), m) :
        o \in BOOLEAN,
        st \in {0, 429, 402} \cup {499 + k : k \in 1..MaxOtherStatus},
        co \in {"", "insufficient_quota", "ECONNREFUSED", "ENOTFOUND", "TIMEOUT",
                "EPIPE"},
        na \in {"Error", "ZodError", "SyntaxError"},
        is \in BOOLEAN,
        m \in {"undefined", "other"}}
    \cup {Thrown(o, st, co, na, is, js) :
        o \in BOOLEAN,
        st \in {0, 429, 402} \cup {499 + k : k \in 1..MaxOtherStatus},
        co \in {"", "insufficient_quota", "ECONNREFUSED", "ENOTFOUND", "TIMEOUT",
                "EPIPE"},
        na \in {"Error", "ZodError", "SyntaxError"},
        is \in BOOLEAN,
        js \in BOOLEAN}

InitClassify ==
    /\ IdleHook
    /\ IdleSched
    /\ IdlePost
    /\ IdlePartition
    /\ IdleRetry
    /\ IdleBatch
    /\ IdleShape
    /\ IdleCache
    /\ clError \in ThrownValues
    /\ clpc = "called"
    /\ clResult = NoClassified

\* mapErrorToScoringError(error) returns or throws
Classify ==
    /\ clpc = "called"
    /\ clpc' = "ended"
    /\ clResult' = IF mapErrorToScoringErrorThrows(clError)
                   THEN [threw |-> TRUE, value |-> ScoringError("none")]
                   ELSE [threw |-> FALSE, value |-> mapErrorToScoringError(clError)]
    /\ UNCHANGED clError
    /\ UNCHANGED <<hookVars, shapeVars, cacheVars, postVars, partVars, retryVars, batchVars, schedVars>>

NextClassify == Classify

SpecClassify == InitClassify /\ [][NextClassify]_vars

----------------------------------------------------------------------------
(* SpecHook: useCandidateScoring; scoreCandidate and updateJobDescription    *)
(* are called at any time, a call of scoreCandidate steps once per await     *)

\* SpecHook: scoreCandidate is called at most this many times
MaxCalls == 3

MIN_JOB_DESCRIPTION_LENGTH == 10

\* lengths of the descriptions passed in, after trim()
DescriptionLengths == {0, MIN_JOB_DESCRIPTION_LENGTH - 1, MIN_JOB_DESCRIPTION_LENGTH, 50}

\* validateJobDescription: TRUE where it returns a message
validateJobDescription(len) == len < MIN_JOB_DESCRIPTION_LENGTH

\* setState((prev) => ({ ...prev, error: validationError }))
SetValidationError(prev) == [prev EXCEPT !.error = ErrorMessage("too short")]

\* setState((prev) => ({ ...prev, isLoading: true, error: null, results: null }))
SetLoading(prev) ==
    [prev EXCEPT !.isLoading = TRUE, !.error = NoError, !.results = NoResults]

\* setState((prev) => ({ ...prev, isLoading: false, results, processingTime,
\* totalProcessed }))
SetResults(prev, r) ==
    [prev EXCEPT !.isLoading = FALSE, !.results = ResultsOf(r),
                 !.totalProcessed = r]

\* setState((prev) => ({ ...prev, isLoading: false, error }))
SetError(prev, m) == [prev EXCEPT !.isLoading = FALSE, !.error = ErrorMessage(m)]

\* setState((prev) => ({ ...prev, jobDescription: description, error: null }))
SetJobDescription(prev, len) ==
    [prev EXCEPT !.jobDescription = len, !.error = NoError]

\* the requests that have not run to their end: awaiting fetch, or awaiting
\* response.json() of an error response or of a 200
Pending == {r \in 1..Len(inFlight) : inFlight[r] # "ended"}

InitHook ==
    /\ IdleClassify
    /\ IdleSched
    /\ IdlePost
    /\ IdlePartition
    /\ IdleRetry
    /\ IdleBatch
    /\ IdleShape
    /\ IdleCache
    /\ state = InitialFormState
    /\ inFlight = <<>>
    /\ started = 0

\* scoreCandidate(jobDescription) up to its first await, or to its return
\* where the description is too short
ScoreCandidate ==
    /\ started < MaxCalls
    /\ started' = started + 1
    /\ \E len \in DescriptionLengths :
         IF validateJobDescription(len)
         THEN /\ state' = SetValidationError(state)
              /\ UNCHANGED inFlight
         ELSE /\ state' = SetLoading(state)
              /\ inFlight' = Append(inFlight, "fetch")
    /\ UNCHANGED <<classifyVars, shapeVars, cacheVars, postVars, partVars, retryVars, batchVars, schedVars>>

\* fetch of request r settles: it rejects (the catch block runs), or it
\* resolves and response.json() is awaited
FetchSettles(r) ==
    /\ inFlight[r] = "fetch"
    /\ \/ /\ inFlight' = [inFlight EXCEPT ![r] = "ended"]
          /\ state' = SetError(state, "Failed to fetch")
       \/ /\ inFlight' = [inFlight EXCEPT ![r] = "errorBody"]
          /\ UNCHANGED state
       \/ /\ inFlight' = [inFlight EXCEPT ![r] = "body"]
          /\ UNCHANGED state
    /\ UNCHANGED started
    /\ UNCHANGED <<classifyVars, shapeVars, cacheVars, postVars, partVars, retryVars, batchVars, schedVars>>

\* response.json() of request r settles: an error response throws its
\* message or the default one, a 200 sets the results; a body that is no
\* JSON rejects into the catch block
BodySettles(r) ==
    /\ inFlight[r] \in {"errorBody", "body"}
    /\ inFlight' = [inFlight EXCEPT ![r] = "ended"]
    /\ \/ state' = SetError(state, "Unexpected token")
       \/ /\ inFlight[r] = "errorBody"
          /\ \E m \in {"Rate limit exceeded", "Failed to score candidates"} :
               state' = SetError(state, m)
       \/ /\ inFlight[r] = "body"
          /\ state' = SetResults(state, r)
    /\ UNCHANGED started
    /\ UNCHANGED <<classifyVars, shapeVars, cacheVars, postVars, partVars, retryVars, batchVars, schedVars>>

\* updateJobDescription(description)
UpdateJobDescription ==
    /\ \E len \in DescriptionLengths : state' = SetJobDescription(state, len)
    /\ UNCHANGED <<inFlight, started>>
    /\ UNCHANGED <<classifyVars, shapeVars, cacheVars, postVars, partVars, retryVars, batchVars, schedVars>>

NextHook ==
    \/ ScoreCandidate
    \/ \E r \in 1..Len(inFlight) : FetchSettles(r)
    \/ \E r \in 1..Len(inFlight) : BodySettles(r)
    \/ UpdateJobDescription

SpecHook == InitHook /\ [][NextHook]_vars

----------------------------------------------------------------------------
(* SpecShape: scoreBatchWithStrategy from the value the gateway resolved     *)
(* to, over items of every shape                                            *)

\* SpecShape: longest `candidates` array of a response
MaxShapeLen == 2

\* the batch being scored
ShapeBatch == <<Candidate(1), Candidate(2)>>

\* an item of a response: its properties and what typeof says of them
ShapeItem(id, score, highlights, reasoning, matchedSkills) ==
    [id |-> id[2], score |-> score[2], highlights |-> highlights[2],
     reasoning |-> reasoning[2], matchedSkills |-> matchedSkills[2],
     js |-> JsTypes("object", id[1], score[1], highlights[1], reasoning[1],
                    matchedSkills[1])]

\* items that are objects: every property missing, of another type, or of
\* the right type with values at and around the limits
ObjectItems ==
    {ShapeItem(id, sc, hl, re, ms) :
        id \in {<<"string", 1>>, <<"string", UnknownId>>, <<"string", EmptyId>>,
                <<"number", 1>>, <<"undefined", EmptyId>>},
        sc \in {<<"number", 0 - 1>>, <<"number", 0>>, <<"number", 80>>,
                <<"number", 100>>, <<"number", 101>>, <<"string", 80>>,
                <<"undefined", 0>>},
        hl \in {<<"array", <<"h1">>>>, <<"array", <<>>>>, <<"array", <<"">>>>,
                <<"string", <<>>>>, <<"undefined", <<>>>>},
        re \in {<<"string", "matches the role">>, <<"string", "ten chars.">>,
                <<"string", "nine char">>, <<"string", "ok">>, <<"string", "">>,
                <<"number", "">>, <<"undefined", "">>},
        ms \in {<<"array", <<"ts">>>>, <<"array", <<>>>>, <<"undefined", <<>>>>}}

\* items that are no objects: null, or a number, a string, a boolean
OtherItems ==
    {[Item(EmptyId, 0) EXCEPT !.js = JsTypes(kind, "undefined", "undefined",
                                            "undefined", "undefined", "undefined")] :
        kind \in {"null", "other"}}

ShapeItems == ObjectItems \cup OtherItems

\* `candidates` arrays: any item, behind well-shaped items of candidate 2
ShapeResponses ==
    {<<>>}
    \cup {[k \in 1..n |-> IF k = n THEN x ELSE Item(2, 35)] :
            n \in 1..MaxShapeLen, x \in ShapeItems}

\* what generateText may resolve to: any text
ShapeTexts ==
    {Text(FALSE, "none", FALSE, <<>>), Text(TRUE, "null", FALSE, <<>>),
     Text(TRUE, "other", FALSE, <<>>), Text(TRUE, "object", FALSE, <<>>)}
    \cup {Text(TRUE, "object", TRUE, r) : r \in ShapeResponses}

\* what generateObject may resolve to: an object the schema accepts
ShapeObjects ==
    {[candidates |-> r] : r \in {x \in ShapeResponses : AIScoreResponseSchema(x)}}

InitShape ==
    /\ IdleClassify
    /\ IdleHook
    /\ IdleSched
    /\ IdlePost
    /\ IdlePartition
    /\ IdleRetry
    /\ IdleBatch
    /\ IdleCache
    /\ shStrategy \in {"structured", "fallback"}
    /\ shValue = Text(FALSE, "none", FALSE, <<>>)
    /\ shpc = "awaiting"
    /\ shValidation = NoValidation
    /\ shResult = NoResult

\* the gateway call resolves
ShapeResolves ==
    /\ shpc = "awaiting"
    /\ shValue' \in IF shStrategy = "structured" THEN ShapeObjects ELSE ShapeTexts
    /\ shpc' = "resolved"
    /\ UNCHANGED <<shStrategy, shValidation, shResult>>
    /\ UNCHANGED <<classifyVars, hookVars, cacheVars, postVars, partVars, retryVars, batchVars, schedVars>>

\* scoreBatchWithStrategy runs on from the await to its return
ShapeReturns ==
    /\ shpc = "resolved"
    /\ shValidation' = IF shStrategy = "fallback"
                       THEN validatePromptResponse(shValue)
                       ELSE NoValidation
    /\ shResult' = ScoreBatchSettled(
                      shStrategy,
                      RetryOnReturn(RetryStart(DEFAULT_maxRetries), shValue),
                      ShapeBatch)
    /\ shpc' = "returned"
    /\ UNCHANGED <<shStrategy, shValue>>
    /\ UNCHANGED <<classifyVars, hookVars, cacheVars, postVars, partVars, retryVars, batchVars, schedVars>>

NextShape == ShapeResolves \/ ShapeReturns

SpecShape == InitShape /\ [][NextShape]_vars

----------------------------------------------------------------------------
(* Spec: scoreCandidates.  A processBatch task takes one step per          *)
(* scoreBatchWithStrategy call; the call's retry loop runs inside the step, *)
(* as the set of the results the loop can settle with.                      *)

\* one step of a retryWithBackoff loop awaiting a gateway call or a timer
RetrySuccessors(rs, values, errors, mr) ==
    IF rs.pc = "operation"
    THEN {RetryOnReturn(rs, v) : v \in values}
         \cup {RetryOnThrow(rs, e, mr) : e \in errors}
    ELSE IF rs.pc \in {"sleep429", "sleep"} THEN {RetryOnTimer(rs, mr)}
    ELSE {}

\* the settled loops reachable from those of `frontier`
RECURSIVE RetrySettled(_, _, _, _)
RetrySettled(frontier, values, errors, mr) ==
    LET running == {rs \in frontier : rs.pc \notin {"returned", "thrown"}}
    IN  (frontier \ running)
        \cup (IF running = {} THEN {}
              ELSE RetrySettled(
                     UNION {RetrySuccessors(rs, values, errors, mr) : rs \in running},
                     values, errors, mr))

\* Spec draws the gateway's behaviour from a part of what SpecBatch draws
\* from: errors of three classes (retried and then a RATE_LIMIT, a
\* NETWORK_ERROR or a PARSE_ERROR),
\* every object, and as text either no JSON at all or a well-shaped response
WaveErrors == {ErrRateLimit, ErrNetwork, ErrSyntax}

WaveValues(op, b) ==
    IF op = "generateObject" THEN ObjectsFor(b)
    ELSE {t \in TextsFor(b) : ~t.json \/ validatePromptResponse(t).isValid}

\* every result scoreBatchWithStrategy(strategy) can have for batch b, the
\* model having been resolved
StrategyResultsOf(strategy, b) ==
    LET op == IF strategy = "structured" THEN "generateObject" ELSE "generateText"
    IN  {ScoreBatchSettled(strategy, rs, b) :
           rs \in RetrySettled({RetryStart(DEFAULT_maxRetries)},
                               WaveValues(op, b), WaveErrors,
                               DEFAULT_maxRetries)}

\* the batches createBatches can cut from a pool of Spec
PossibleBatches ==
    {[k \in 1..n |-> Candidate(lo + k)] : lo \in 0..MaxPool, n \in 1..MaxBatchSize}
    \cup {[k \in 1..n |-> Candidate(k)] : n \in 1..Min(MaxDataset, DEFAULT_batchSize)}

\* StrategyResultsOf, computed once per batch
StrategyResultsTable ==
    [b \in PossibleBatches |->
        [strategy \in {"structured", "fallback"} |-> StrategyResultsOf(strategy, b)]]

StrategyResults(strategy, b) == StrategyResultsTable[b][strategy]

\* results.filter(success).flatMap(data)
RECURSIVE ScoredCandidatesOf(_)
ScoredCandidatesOf(rs) ==
    IF rs = <<>> THEN <<>>
    ELSE (IF Head(rs).success THEN Head(rs).data ELSE <<>>)
         \o ScoredCandidatesOf(Tail(rs))

\* results.filter(!success).map(error)
RECURSIVE ErrorsOf(_)
ErrorsOf(rs) ==
    IF rs = <<>> THEN <<>>
    ELSE (IF Head(rs).success THEN <<>> ELSE <<Head(rs).error>>)
         \o ErrorsOf(Tail(rs))

\* a sort that is not stable: x goes before the elements of its own score
InsertByScoreBeforeTies(sorted, x) ==
    LET n == Cardinality({k \in 1..Len(sorted) : sorted[k].score > x.score})
    IN  Slice(sorted, 0, n) \o <<x>> \o Slice(sorted, n, Len(sorted))

\* Array.prototype.sort with (a, b) => b.score - a.score: stable, so x goes
\* behind every element that does not score less
InsertByScore(sorted, x) ==
    LET n == Cardinality({k \in 1..Len(sorted) : sorted[k].score >= x.score})
    IN  Slice(sorted, 0, n) \o <<x>> \o Slice(sorted, n, Len(sorted))

RECURSIVE SortByScore(_)
SortByScore(cs) ==
    IF cs = <<>> THEN <<>>
    ELSE InsertByScore(SortByScore(Slice(cs, 0, Len(cs) - 1)), cs[Len(cs)])

\* sortAndLimitCandidates without the sort
sortAndLimitUnsorted(cs, limit) == Slice(cs, 0, limit)

\* sortAndLimitCandidates cutting before it sorts
sortAndLimitCutFirst(cs, limit) == SortByScore(Slice(cs, 0, limit))

sortAndLimitCandidates(cs, limit) == Slice(SortByScore(cs), 0, limit)

\* scoreCandidates failing as soon as one batch failed
FinalizeStrict(rs, limit) ==
    IF ErrorsOf(rs) # <<>> THEN Failure(ErrorsOf(rs)[1])
    ELSE Success(sortAndLimitCandidates(ScoredCandidatesOf(rs), limit))

\* scoreCandidates reporting the error of the batch that failed first in time
FinalizeFirstInTime(rs, limit) ==
    LET failedInTime == SelectSeq(settleOrder,
                                  LAMBDA k : k <= Len(rs) /\ ~rs[k].success)
    IN  IF Len(ScoredCandidatesOf(rs)) = 0
        THEN Failure(IF failedInTime # <<>> THEN rs[failedInTime[1]].error
                     ELSE IF ErrorsOf(rs) # <<>> THEN ErrorsOf(rs)[1]
                     ELSE ScoringError("UNKNOWN_ERROR"))
        ELSE Success(sortAndLimitCandidates(ScoredCandidatesOf(rs), limit))

\* scoreCandidates failing only where a batch failed
FinalizeSuccessOnEmpty(rs, limit) ==
    IF Len(ScoredCandidatesOf(rs)) = 0 /\ ErrorsOf(rs) # <<>>
    THEN Failure(ErrorsOf(rs)[1])
    ELSE Success(sortAndLimitCandidates(ScoredCandidatesOf(rs), limit))

\* scoreCandidates reading the results of the last wave in the order in
\* which its batches settled
FinalizeBySettle(rs, limit) ==
    LET base == Len(rs) - Len(settleOrder)
        bySettle == [j \in 1..Len(rs) |->
                       IF j <= base THEN rs[j] ELSE rs[settleOrder[j - base]]]
    IN  IF Len(ScoredCandidatesOf(bySettle)) = 0
        THEN Failure(IF ErrorsOf(bySettle) # <<>> THEN ErrorsOf(bySettle)[1]
                     ELSE ScoringError("UNKNOWN_ERROR"))
        ELSE Success(sortAndLimitCandidates(ScoredCandidatesOf(bySettle), limit))

\* scoreCandidates from the return of processParallelBatches on
Finalize(rs, limit) ==
    IF Len(ScoredCandidatesOf(rs)) = 0
    THEN Failure(IF ErrorsOf(rs) # <<>> THEN ErrorsOf(rs)[1]
                 ELSE ScoringError("UNKNOWN_ERROR"))
    ELSE Success(sortAndLimitCandidates(ScoredCandidatesOf(rs), limit))

\* a wave one batch wider than maxConcurrentBatches allows
WaveWide(from, n) ==
    {k \in 1..n : from < k /\ k <= from + DEFAULT_maxConcurrentBatches + 1}

\* the batch indices (1-based) of the wave that starts at loop index `from`
Wave(from, n) == {k \in 1..n : from < k /\ k <= from + DEFAULT_maxConcurrentBatches}

\* processBatch(batch, ...) called: it runs to its first await, or rejects
\* where getAIModel throws
StartedTask ==
    IF getAIModelThrows(provider)
    THEN [st |-> "rejected", result |-> NoResult, prompt |-> NoPrompt]
    ELSE [st |-> "structured", result |-> NoResult,
          prompt |-> createScoringPrompt(weights)]

PendingTask == [st |-> "pending", result |-> NoResult, prompt |-> NoPrompt]

\* batchGroup.map(processBatch) for the wave at loop index `from`
StartWave(ts, from) ==
    [k \in DOMAIN ts |-> IF k \in Wave(from, Len(ts)) THEN StartedTask ELSE ts[k]]

\* the promises of the wave at `from` that are settled as soon as they are
\* made (getAIModel threw), in the order of their making
SettledAtStart(ts, from) ==
    IF getAIModelThrows(provider)
    THEN [j \in 1..Cardinality(Wave(from, Len(ts))) |-> from + j]
    ELSE <<>>

\* values of options.maxResults: 30 is the default
MaxResultsArgs == {2, 30}

\* await delay(1000) between two waves
InterWaveDelay == 1000

\* `weights` of a request body: absent; five fractions that sum to 1, one of
\* them 0; five that sum to 0.8; five that sum to 1.0005; one fraction alone;
\* a fraction above 1
SampleWeights ==
    {NoWeights,
     Weights(TRUE, 0, 5000, 3000, 1000, 1000),
     Weights(TRUE, 1600, 1600, 1600, 1600, 1600),
     Weights(TRUE, 4005, 2500, 1500, 1000, 1000),
     Weights(TRUE, 5000, Absent, Absent, Absent, Absent),
     Weights(TRUE, One + 1, 2500, 1500, 1000, 1000)}

\* request bodies: not JSON at all, or an object whose jobDescription has
\* jdLen characters, whose maxResults is absent or an integer, and whose
\* weights are absent or an object of fractions
Requests ==
    {NoRequest}
    \cup [json : {TRUE}, jdLen : {9, 10, 200, 201}, maxResultsGiven : {TRUE},
          maxResults : {0, 2, 101}, weights : {NoWeights}]
    \cup [json : {TRUE}, jdLen : {10}, maxResultsGiven : {FALSE},
          maxResults : {0}, weights : SampleWeights]

\* getCandidates throws, or resolves to the candidates of the data file
Datasets ==
    {[throws |-> TRUE, candidates |-> <<>>]}
    \cup {[throws |-> FALSE, candidates |-> [k \in 1..n |-> Candidate(k)]] :
            n \in 0..MaxDataset}

\* scoreCandidates called on its own
InitDirect ==
    /\ IdlePost
    /\ \E n \in 0..MaxPool : candidates = [k \in 1..n |-> Candidate(k)]
    /\ batchSize \in 1..MaxBatchSize
    /\ maxResults \in MaxResultsArgs
    /\ weights = NoWeights
    /\ spc = "start"
    /\ batches = <<>>
    /\ loopI = 0
    /\ tasks = <<>>
    /\ results = <<>>
    /\ pauses = <<>>
    /\ settleOrder = <<>>
    /\ finalResult = NoResult

\* a request arrives at POST /api/score
InitPost ==
    /\ IdleSched
    /\ request \in Requests
    /\ dataset \in Datasets
    /\ ppc = "request"
    /\ nextResponse = NoResponse

Init ==
    /\ IdleClassify
    /\ IdleHook
    /\ IdlePartition
    /\ IdleRetry
    /\ IdleShape
    /\ IdleCache
    /\ batch = <<Candidate(1)>>
    /\ bpc = "none"
    /\ structured = NoResult
    /\ fallback = NoResult
    /\ outcome = NoResult
    /\ objectCalls = 0
    /\ textCalls = 0
    /\ provider \in ProviderNames
    /\ (InitDirect \/ InitPost)

\* scoreCandidates never taking the early return
EmptyPoolNever(cs) == FALSE

\* if (candidates.length === 0)
EmptyPool(cs) == Len(cs) = 0

\* the loop ending after a wave in which a batch failed
LoopTestUnlessFailed(i, n) ==
    /\ i < n
    /\ \A k \in 1..Len(tasks) :
         /\ tasks[k].st # "rejected"
         /\ tasks[k].st = "fulfilled" => tasks[k].result.success

\* the loop ending one batch early
LoopTestSkipsLast(i, n) == i + 1 < n

\* the for statement's test: i < batches.length
LoopTest(i, n) == i < n

\* a pause after every wave, the last one too
PauseNeededAlways(i, n) == TRUE

\* if (i + maxConcurrentBatches < batches.length)
PauseNeeded(i, n) == i + DEFAULT_maxConcurrentBatches < n

\* a join that ends with the first failure of the wave
AllSettledFailFast(ts, group) ==
    \/ \A k \in group : ts[k].st \in {"fulfilled", "rejected"}
    \/ \E k \in group :
         \/ ts[k].st = "rejected"
         \/ ts[k].st = "fulfilled" /\ ~ts[k].result.success

\* Promise.allSettled(batchPromises) resolves when every promise has settled
AllSettled(ts, group) == \A k \in group : ts[k].st \in {"fulfilled", "rejected"}

\* the for statement's test at index i: either the wave at i starts, or the
\* loop ends and scoreCandidates returns from the results rs
LoopStep(i, ts, rs) ==
    /\ loopI' = i
    /\ IF LoopTest(i, Len(ts))
       THEN /\ tasks' = StartWave(ts, i)
            /\ settleOrder' = SettledAtStart(ts, i)
            /\ spc' = "wave"
            /\ UNCHANGED finalResult
       ELSE /\ tasks' = ts
            /\ spc' = "done"
            /\ finalResult' = Finalize(rs, maxResults)
            /\ UNCHANGED settleOrder

\* scoreCandidates is called: an empty pool returns at once; otherwise the
\* pool is cut into batches and the loop is entered
ScoreCandidatesCall ==
    /\ spc = "start"
    /\ IF EmptyPool(candidates)
       THEN /\ finalResult' = Success(<<>>)
            /\ spc' = "done"
            /\ UNCHANGED <<batches, tasks, loopI, settleOrder>>
       ELSE LET bs == createBatches(candidates, batchSize)
            IN  /\ batches' = bs
                /\ LoopStep(0, [k \in 1..Len(bs) |-> PendingTask], <<>>)
    /\ UNCHANGED <<candidates, batchSize, maxResults, weights, results, pauses>>
    /\ UNCHANGED <<classifyVars, hookVars, shapeVars, cacheVars, postVars, partVars, retryVars, batchVars>>

\* the structured strategy of task k settles: processBatch starts the
\* fallback strategy or returns
TaskStructuredSettles(k) ==
    /\ tasks[k].st = "structured"
    /\ \E res \in StrategyResults("structured", batches[k]) :
         IF NeedsFallback(res)
         THEN /\ tasks' = [tasks EXCEPT ![k] =
                            [st |-> "fallback", result |-> NoResult,
                             prompt |-> createConstrainedPrompt]]
              /\ UNCHANGED settleOrder
         ELSE /\ tasks' = [tasks EXCEPT ![k] =
                            [st |-> "fulfilled", result |-> BatchResult(res, k - 1),
                             prompt |-> NoPrompt]]
              /\ settleOrder' = Append(settleOrder, k)
    /\ UNCHANGED <<candidates, batchSize, maxResults, weights, spc, batches, loopI, results, pauses, finalResult>>
    /\ UNCHANGED <<classifyVars, hookVars, shapeVars, cacheVars, postVars, partVars, retryVars, batchVars>>

\* the fallback strategy of task k settles: processBatch returns
TaskFallbackSettles(k) ==
    /\ tasks[k].st = "fallback"
    /\ \E res \in StrategyResults("fallback", batches[k]) :
         tasks' = [tasks EXCEPT ![k] =
                     [st |-> "fulfilled", result |-> BatchResult(res, k - 1),
                      prompt |-> NoPrompt]]
    /\ settleOrder' = Append(settleOrder, k)
    /\ UNCHANGED <<candidates, batchSize, maxResults, weights, spc, batches, loopI, results, pauses, finalResult>>
    /\ UNCHANGED <<classifyVars, hookVars, shapeVars, cacheVars, postVars, partVars, retryVars, batchVars>>

\* a rejected promise taken for a fulfilled one: its value is no BatchResult
ProcessedResultUnmapped(k) == tasks[k].result

\* a rejected promise reported at its index inside the wave (groupIndex)
\* instead of i + groupIndex
ProcessedResultGroupIndex(k) ==
    IF tasks[k].st = "fulfilled" THEN tasks[k].result
    ELSE [success |-> FALSE, error |-> mapErrorToScoringError(ErrPlain),
          batchIndex |-> (k - 1) % DEFAULT_maxConcurrentBatches]

\* Promise.allSettled's result for task k, as processedResults has it
ProcessedResult(k) ==
    IF tasks[k].st = "fulfilled" THEN tasks[k].result
    ELSE [success |-> FALSE, error |-> mapErrorToScoringError(ErrPlain),
          batchIndex |-> k - 1]

\* the wave's results pushed in the order in which the promises settled
ProcessedResultsBySettle(first, count) ==
    [j \in 1..count |->
        ProcessedResult(IF j <= Len(settleOrder) THEN settleOrder[j]
                        ELSE first + j - 1)]

\* groupResults.map(...): one result per promise of the wave, in the order of
\* batchPromises
ProcessedResults(first, count) ==
    [j \in 1..count |-> ProcessedResult(first + j - 1)]

\* Promise.allSettled resolves: the wave's results are pushed; then either
\* the pause before the next wave begins, or the loop index advances and the
\* loop ends
WaveSettles ==
    /\ spc = "wave"
    /\ AllSettled(tasks, Wave(loopI, Len(batches)))
    /\ LET pushed == results \o
                       ProcessedResults(loopI + 1,
                                        Cardinality(Wave(loopI, Len(batches))))
       IN  /\ results' = pushed
           /\ IF PauseNeeded(loopI, Len(batches))
              THEN /\ spc' = "pause"
                   /\ pauses' = Append(pauses, InterWaveDelay)
                   /\ UNCHANGED <<loopI, tasks, settleOrder, finalResult>>
              ELSE /\ LoopStep(loopI + DEFAULT_maxConcurrentBatches, tasks, pushed)
                   /\ UNCHANGED pauses
    /\ UNCHANGED <<candidates, batchSize, maxResults, weights, batches>>
    /\ UNCHANGED <<classifyVars, hookVars, shapeVars, cacheVars, postVars, partVars, retryVars, batchVars>>

\* delay(1000) elapses: the loop index advances and the next wave starts
PauseElapses ==
    /\ spc = "pause"
    /\ LoopStep(loopI + DEFAULT_maxConcurrentBatches, tasks, results)
    /\ UNCHANGED <<candidates, batchSize, maxResults, weights, batches, results, pauses>>
    /\ UNCHANGED <<classifyVars, hookVars, shapeVars, cacheVars, postVars, partVars, retryVars, batchVars>>

----------------------------------------------------------------------------
(* POST /api/score *)

\* ScoreRequestBodySchema without the length bounds of jobDescription
ValidBodyAnyLength(req) ==
    /\ req.maxResultsGiven => (req.maxResults >= 1 /\ req.maxResults <= 100)
    /\ WeightsInRange(req.weights)

\* ScoreRequestBodySchema.parse succeeds
ValidBody(req) ==
    /\ req.jdLen >= 10
    /\ req.jdLen <= 200
    /\ req.maxResultsGiven => (req.maxResults >= 1 /\ req.maxResults <= 100)
    /\ WeightsInRange(req.weights)

\* the parsed maxResults: .optional().default(30)
ParsedMaxResults(req) == IF req.maxResultsGiven THEN req.maxResults ELSE 30

\* statusMap[error.type] || 500
StatusOf(type) ==
    CASE type = "VALIDATION_ERROR" -> 400
      [] type = "RATE_LIMIT" -> 429
      [] type = "PARSE_ERROR" -> 502
      [] type = "NETWORK_ERROR" -> 503
      [] type = "QUOTA_EXCEEDED" -> 402
      [] OTHER -> 500

\* createErrorResponse(error: ScoringError)
createErrorResponse(error) ==
    [status |-> StatusOf(error.type), ok |-> FALSE, error |-> error,
     candidates |-> <<>>, totalProcessed |-> 0]

\* createErrorResponse(message: string, status)
createErrorResponseText(status) ==
    [status |-> status, ok |-> FALSE, error |-> ScoringError("UNKNOWN_ERROR"),
     candidates |-> <<>>, totalProcessed |-> 0]

\* NextResponse.json({candidates, totalProcessed, ...})
ScoreResponse(cs, total) ==
    [status |-> 200, ok |-> TRUE, error |-> ScoringError("none"),
     candidates |-> cs, totalProcessed |-> total]

\* if (candidates.length === 0) of the handler
EmptyDataset(cs) == Len(cs) = 0

\* the body is read and validated; the handler answers 400 or awaits
\* getCandidates
PostReceives ==
    /\ ppc = "request"
    /\ IF ~request.json
       THEN /\ nextResponse' = createErrorResponseText(400)
            /\ ppc' = "responded"
       ELSE IF ~ValidBody(request)
       THEN /\ nextResponse' = createErrorResponse(
                             [type |-> "VALIDATION_ERROR", field |-> "body"])
            /\ ppc' = "responded"
       ELSE /\ ppc' = "loading"
            /\ UNCHANGED nextResponse
    /\ UNCHANGED <<request, dataset>>
    /\ UNCHANGED <<classifyVars, hookVars, shapeVars, cacheVars, partVars, retryVars, batchVars, schedVars>>

\* getCandidates settles: the handler answers 500, answers the empty
\* dataset, or calls scoreCandidates with maxResults (and no batchSize)
PostLoaded ==
    /\ ppc = "loading"
    /\ IF dataset.throws
       THEN /\ nextResponse' = createErrorResponseText(500)
            /\ ppc' = "responded"
            /\ UNCHANGED <<candidates, batchSize, maxResults, weights, spc>>
       ELSE IF EmptyDataset(dataset.candidates)
       THEN /\ nextResponse' = ScoreResponse(<<>>, 0)
            /\ ppc' = "responded"
            /\ UNCHANGED <<candidates, batchSize, maxResults, weights, spc>>
       ELSE /\ candidates' = dataset.candidates
            /\ batchSize' = DEFAULT_batchSize
            /\ maxResults' = ParsedMaxResults(request)
            /\ weights' = IF request.weights.given
                          THEN fullWeights(request.weights)
                          ELSE NoWeights
            /\ spc' = "start"
            /\ ppc' = "scoring"
            /\ UNCHANGED nextResponse
    /\ UNCHANGED <<request, dataset>>
    /\ UNCHANGED <<batches, loopI, tasks, results, pauses, settleOrder, finalResult>>
    /\ UNCHANGED <<classifyVars, hookVars, shapeVars, cacheVars, partVars, retryVars, batchVars>>

\* scoreCandidates has returned: the handler answers with the error's status
\* or with the candidates
PostResponds ==
    /\ ppc = "scoring"
    /\ spc = "done"
    /\ nextResponse' = IF ~finalResult.success
                   THEN createErrorResponse(finalResult.error)
                   ELSE ScoreResponse(finalResult.data, Len(candidates))
    /\ ppc' = "responded"
    /\ UNCHANGED <<request, dataset>>
    /\ UNCHANGED <<classifyVars, hookVars, shapeVars, cacheVars, partVars, retryVars, batchVars, schedVars>>

Next ==
    \/ PostReceives
    \/ PostLoaded
    \/ PostResponds
    \/ ScoreCandidatesCall
    \/ \E k \in 1..Len(tasks) : TaskStructuredSettles(k)
    \/ \E k \in 1..Len(tasks) : TaskFallbackSettles(k)
    \/ WaveSettles
    \/ PauseElapses

Spec == Init /\ [][Next]_vars

\* Promise.allSettled of the current wave has every promise settled and its
\* continuation has not run yet: WaveSettles is enabled
WaveDue == spc = "wave" /\ AllSettled(tasks, Wave(loopI, Len(batches)))

\* SpecFair: a pending gateway call settles (with it the timers of its
\* retries fire), the pause between waves elapses, and the continuations
\* that wait for nothing run on.  A request has finitely many waves, so weak
\* fairness of WaveSettles is that WaveDue does not hold for ever; it is
\* stated in that form.
SpecFair ==
    /\ Spec
    /\ WF_vars(PostReceives \/ PostLoaded \/ PostResponds)
    /\ WF_vars(ScoreCandidatesCall)
    /\ WF_vars(\E k \in 1..Len(tasks) : TaskStructuredSettles(k))
    /\ WF_vars(\E k \in 1..Len(tasks) : TaskFallbackSettles(k))
    /\ WF_vars(PauseElapses)
    /\ []<>(~WaveDue)

----------------------------------------------------------------------------
(* SpecCache: the candidate store, getCandidates and                        *)
(* invalidateCandidatesCache called at any time                             *)

\* SpecCache: the clock is read over this many cache durations, and
\* loadCandidatesFromFile is called at most this many times
MaxWindows == 2
MaxLoads == 3

\* const CACHE_DURATION = 5 * 60 * 1000
CACHE_DURATION == 300000

\* Date.now() when the module is loaded
StartTime == 10 * CACHE_DURATION

\* the instants at which the clock is read: whole cache durations after
\* StartTime, and one millisecond before and after each
ClockValues ==
    {t \in {StartTime + k * CACHE_DURATION + d :
              k \in 0..MaxWindows, d \in {0 - 1, 0, 1}} : t >= StartTime}

\* the cache test taking a collection of exactly CACHE_DURATION for fresh
CacheFreshInclusive(c, loadTime, t) == c.loaded /\ t - loadTime <= CACHE_DURATION

\* if (candidatesCache && now - lastLoadTime < CACHE_DURATION): an array,
\* even an empty one, is truthy
CacheFresh(c, loadTime, t) == c.loaded /\ t - loadTime < CACHE_DURATION

InitCache ==
    /\ IdleClassify
    /\ IdleHook
    /\ IdleSched
    /\ IdlePost
    /\ IdlePartition
    /\ IdleRetry
    /\ IdleBatch
    /\ IdleShape
    /\ candidatesCache = NoCache
    /\ lastLoadTime = 0
    /\ now = StartTime
    /\ dataFile \in Datasets
    /\ loads = 0
    /\ lastCall = NoCall

\* time passes
ClockAdvances ==
    /\ \E t \in ClockValues : t > now /\ now' = t
    /\ UNCHANGED <<candidatesCache, lastLoadTime, dataFile, loads, lastCall>>
    /\ UNCHANGED <<classifyVars, hookVars, shapeVars, postVars, partVars, retryVars, batchVars, schedVars>>

\* data/candidates.json is replaced, removed or restored
FileChanges ==
    /\ dataFile' \in Datasets \ {dataFile}
    /\ UNCHANGED <<candidatesCache, lastLoadTime, now, loads, lastCall>>
    /\ UNCHANGED <<classifyVars, hookVars, shapeVars, postVars, partVars, retryVars, batchVars, schedVars>>

\* candidatesCache after `candidatesCache = loadCandidatesFromFile()`: the
\* load is synchronous, so where it throws the assignment is not made
CacheAfterLoad(c, file) ==
    IF file.throws THEN c ELSE [loaded |-> TRUE, data |-> file.candidates]

\* the load time noted before the load is made
LoadTimeAfterLoadEarly(loadTime, file, t) == t

\* lastLoadTime after `lastLoadTime = now`, which a throwing load does not
\* reach
LoadTimeAfterLoad(loadTime, file, t) == IF file.throws THEN loadTime ELSE t

\* getCandidates(): the body has no await and runs in one piece; where
\* loadCandidatesFromFile throws, neither assignment is made
GetCandidates ==
    /\ loads < MaxLoads
    /\ IF CacheFresh(candidatesCache, lastLoadTime, now)
       THEN /\ lastCall' = Call("get", FALSE, candidatesCache.data,
                               lastCall.kind = "invalidate")
            /\ UNCHANGED <<candidatesCache, lastLoadTime, loads>>
       ELSE /\ loads' = loads + 1
            /\ candidatesCache' = CacheAfterLoad(candidatesCache, dataFile)
            /\ lastLoadTime' = LoadTimeAfterLoad(lastLoadTime, dataFile, now)
            /\ lastCall' = IF dataFile.throws
                           THEN Call("get", TRUE, <<>>, lastCall.kind = "invalidate")
                           ELSE Call("get", FALSE, dataFile.candidates,
                                     lastCall.kind = "invalidate")
    /\ UNCHANGED <<now, dataFile>>
    /\ UNCHANGED <<classifyVars, hookVars, shapeVars, postVars, partVars, retryVars, batchVars, schedVars>>

\* invalidateCandidatesCache()
InvalidateCandidatesCache ==
    /\ candidatesCache' = NoCache
    /\ lastLoadTime' = 0
    /\ lastCall' = Call("invalidate", FALSE, <<>>, FALSE)
    /\ UNCHANGED <<now, dataFile, loads>>
    /\ UNCHANGED <<classifyVars, hookVars, shapeVars, postVars, partVars, retryVars, batchVars, schedVars>>

NextCache ==
    \/ ClockAdvances
    \/ FileChanges
    \/ GetCandidates
    \/ InvalidateCandidatesCache

SpecCache == InitCache /\ [][NextCache]_vars

----------------------------------------------------------------------------
(* Properties *)

\* the in-order concatenation of an array of arrays
RECURSIVE Concat(_)
Concat(ss) == IF ss = <<>> THEN <<>> ELSE Head(ss) \o Concat(Tail(ss))

\* the invocations of the log that threw
Failures(log) == {k \in 1..Len(log) : log[k].kind # "ok"}

\* C1: for every pool of size N and every batch size B >= 1, createBatches
\* returns ceil(N/B) batches whose in-order concatenation is the pool; every
\* batch is non-empty and has at most B candidates, only the last batch may
\* be shorter than B, and every candidate is in exactly one batch.
C1_Partitioning ==
    parts.returned =>
        LET bs == parts.batches
            N == Len(items)
            B == size
        IN  /\ Len(bs) * B >= N
            /\ (Len(bs) - 1) * B < N
            /\ Concat(bs) = items
            /\ \A i \in 1..Len(bs) :
                 /\ Len(bs[i]) >= 1
                 /\ Len(bs[i]) <= B
                 /\ i < Len(bs) => Len(bs[i]) = B
            /\ \A c \in 1..N :
                 Cardinality({ik \in (1..Len(bs)) \X (1..B) :
                     /\ ik[2] <= Len(bs[ik[1]])
                     /\ bs[ik[1]][ik[2]] = items[c]}) = 1

\* a pool split into several batches, the last one shorter than the others
C1_Witness ==
    /\ parts.returned
    /\ Len(parts.batches) >= 2
    /\ Len(parts.batches[Len(parts.batches)]) < size

\* C4: retryWithBackoff invokes the operation at most maxRetries + 1 times
\* (4 with the default), and the first successful invocation is the last
\* invocation and its value is the value returned.
C4_RetryBound ==
    /\ opCalls <= maxRetries + 1
    /\ maxRetries = DEFAULT_maxRetries => opCalls <= 4
    /\ \A k \in 1..Len(opLog) :
         opLog[k].kind = "ok" =>
             /\ k = Len(opLog)
             /\ opCalls = k
             /\ retry.pc = "returned"
             /\ retry.value = opLog[k].value

\* the default call succeeds at its fourth and last invocation
C4_Witness ==
    /\ maxRetries = DEFAULT_maxRetries
    /\ retry.pc = "returned"
    /\ opCalls = 4

\* C5: after the failed attempt k (0-indexed), k < maxRetries, the loop waits
\* exactly once, min(1000 * 2^k, 10000) ms, before attempt k + 1, also when
\* the failure has status 429; after the final failed attempt it waits not at
\* all.
C5_BackoffSchedule ==
    LET F == Cardinality(Failures(opLog))
    IN  /\ Len(waits) = Min(F, maxRetries)
        /\ \A k \in 1..Len(waits) : waits[k] = Min(1000 * 2^(k - 1), 10000)
        /\ retry.pc \in {"sleep429", "sleep"} =>
             /\ opCalls = Len(waits)
             /\ retry.timer = waits[Len(waits)]
        /\ retry.pc = "operation" => opCalls = Len(waits) + 1
        /\ retry.pc = "thrown" => Len(waits) = maxRetries /\ opCalls = maxRetries + 1

\* a run of 429 failures long enough for the cap of 10000 ms to apply, ended
\* by the rethrow
C5_Witness ==
    /\ retry.pc = "thrown"
    /\ Len(waits) = 5
    /\ waits[5] = 10000
    /\ \A k \in 1..Len(opLog) : opLog[k].kind = "429"

\* C6: when all maxRetries + 1 invocations fail, retryWithBackoff throws the
\* error object of the last invocation, as the gateway threw it.
C6_Exhaustion ==
    (Len(opLog) = maxRetries + 1 /\ Failures(opLog) = 1..Len(opLog)) =>
        /\ retry.pc = "thrown"
        /\ retry.lastError \in
             {[e EXCEPT !.seq = maxRetries + 1] : e \in GatewayErrors}
        /\ (retry.lastError.status = 429) = (opLog[Len(opLog)].kind = "429")

\* the first invocation failed with status 429, the last with something else
C6_Witness ==
    /\ retry.pc = "thrown"
    /\ maxRetries >= 1
    /\ opLog[1].kind = "429"
    /\ opLog[Len(opLog)].kind = "other"

\* C7: the invocations and the delays do not depend on the class of the
\* errors: a run whose attempts all fail makes maxRetries + 1 invocations and
\* waits calculateDelay(0), ..., calculateDelay(maxRetries - 1), whether the
\* failures have status 429 or not; and every failure before the last is
\* followed by a retry.
C7_UniformRetry ==
    /\ retry.pc = "thrown" =>
         /\ opCalls = maxRetries + 1
         /\ waits = [k \in 1..maxRetries |-> calculateDelay(k - 1)]
    /\ \A k \in Failures(opLog) : k <= maxRetries => opCalls > k \/ retry.pc \in {"sleep429", "sleep"}

\* the default call, every attempt failing with a status other than 429
C7_Witness ==
    /\ retry.pc = "thrown"
    /\ maxRetries = DEFAULT_maxRetries
    /\ Len(opLog) = 4
    /\ \A k \in 1..Len(opLog) : opLog[k].kind = "other"

\* C2: whenever the structured attempt of a batch ends in a failure
\* classified PARSE_ERROR, the constrained-text strategy (generateText) is
\* attempted for the batch before the batch reaches a terminal state.
C2_FallbackOnParseError ==
    (~structured.success /\ structured.error.type = "PARSE_ERROR") =>
        /\ textCalls >= 1
        /\ bpc \in {"fallback", "done"}
        /\ bpc = "done" => fallback # NoResult /\ outcome = BatchResult(fallback, 0)

\* a batch whose structured attempt failed to parse and whose fallback scored
C2_Witness ==
    /\ bpc = "done"
    /\ ~structured.success
    /\ structured.error.type = "PARSE_ERROR"
    /\ textCalls >= 1
    /\ outcome.success

\* C3: a batch whose structured attempt ends in a failure classified
\* RATE_LIMIT, NETWORK_ERROR, QUOTA_EXCEEDED, VALIDATION_ERROR or UNKNOWN_ERROR
\* never calls generateText, and its outcome is the failure with exactly that
\* error.
C3_NoFallbackOnOtherError ==
    (/\ ~structured.success
     /\ structured.error.type \in
          {"RATE_LIMIT", "NETWORK_ERROR", "QUOTA_EXCEEDED", "VALIDATION_ERROR",
           "UNKNOWN_ERROR"}) =>
        /\ textCalls = 0
        /\ fallback = NoResult
        /\ bpc = "done"
        /\ ~outcome.success
        /\ outcome.error = structured.error
        /\ retry.pc = "thrown" =>
             outcome.error.type = mapErrorToScoringError(retry.lastError).type

\* the structured attempt exhausted its retries on status 429
C3_Witness ==
    /\ bpc = "done"
    /\ ~structured.success
    /\ structured.error.type = "RATE_LIMIT"
    /\ objectCalls = 4
    /\ textCalls = 0

\* the successful outcomes among the collected batch outcomes
Succeeded == {k \in 1..Len(results) : results[k].success}

\* occurrences of x in the sequence cs
Count(cs, x) == Cardinality({k \in 1..Len(cs) : cs[k] = x})

\* occurrences of x in the data of all successful batches
CountScored(x) ==
    Cardinality({kj \in Succeeded \X (1..MaxBatchSize) :
                   /\ kj[2] <= Len(results[kj[1]].data)
                   /\ results[kj[1]].data[kj[2]] = x})

RECURSIVE SumLen(_)
SumLen(ks) ==
    IF ks = {} THEN 0
    ELSE LET k == CHOOSE x \in ks : TRUE
         IN  Len(results[k].data) + SumLen(ks \ {k})

\* C8: for a non-empty pool, if at least one batch outcome is a success with
\* at least one ScoredCandidate, scoreCandidates returns success whatever
\* batches failed; the result holds only ScoredCandidates of successful
\* batches and carries no batch error.
C8_PartialSuccess ==
    (/\ spc = "done"
     /\ Len(candidates) > 0
     /\ \E k \in Succeeded : Len(results[k].data) >= 1) =>
        /\ finalResult.success
        /\ DOMAIN finalResult = {"success", "data"}
        /\ \A x \in 1..Len(finalResult.data) :
             Count(finalResult.data, finalResult.data[x])
                 <= CountScored(finalResult.data[x])

\* three batches: the second fails with NETWORK_ERROR, the others score
C8_Witness ==
    /\ spc = "done"
    /\ Len(results) = 3
    /\ results[1].success /\ Len(results[1].data) >= 1
    /\ ~results[2].success /\ results[2].error.type = "NETWORK_ERROR"
    /\ results[3].success /\ Len(results[3].data) >= 1
    /\ finalResult.success

\* C9: in every success result of scoreCandidates the ScoredCandidates are in
\* non-increasing order of score.
C9_RankingOrder ==
    (spc = "done" /\ finalResult.success) =>
        \A a, b \in 1..Len(finalResult.data) :
            a < b => finalResult.data[a].score >= finalResult.data[b].score

\* a later batch scored higher than an earlier one, and the result puts the
\* higher score first
C9_Witness ==
    /\ spc = "done"
    /\ finalResult.success
    /\ Len(finalResult.data) >= 2
    /\ finalResult.data[1].score > finalResult.data[2].score
    /\ \E k1, k2 \in Succeeded :
         /\ k1 < k2
         /\ Len(results[k1].data) >= 1
         /\ Len(results[k2].data) >= 1
         /\ results[k1].data[1].score < results[k2].data[1].score

\* C10: a success result has exactly min(maxResults, S) entries, S being the
\* number of ScoredCandidates of all successful batches, and every
\* ScoredCandidate left out scores no more than every one kept.
C10_TopN ==
    (spc = "done" /\ finalResult.success) =>
        LET kept == finalResult.data
            all == UNION {{results[k].data[j] : j \in 1..Len(results[k].data)} :
                            k \in Succeeded}
        IN  /\ Len(kept) = Min(maxResults, SumLen(Succeeded))
            /\ \A x \in all :
                 Count(kept, x) < CountScored(x) =>
                     \A y \in 1..Len(kept) : x.score <= kept[y].score

\* more candidates were scored than maxResults allows, and a high score that
\* came late was kept
C10_Witness ==
    /\ spc = "done"
    /\ finalResult.success
    /\ SumLen(Succeeded) > maxResults
    /\ Len(finalResult.data) = maxResults
    /\ Len(results) >= 3
    /\ results[3].success
    /\ Len(results[3].data) >= 1
    /\ finalResult.data[1] = results[3].data[1]
    /\ \E j \in 1..Len(results[1].data) : results[1].data[j].score < finalResult.data[1].score

\* the batches that have issued a gateway call: a processBatch task past its
\* start has called generateObject
CalledGateway ==
    {k \in 1..Len(tasks) : tasks[k].st \in {"structured", "fallback", "fulfilled"}}

\* C11: given an empty pool, scoreCandidates returns success with an empty
\* list, and the POST handler given an empty dataset answers 200 with an
\* empty list; neither creates a batch or makes a gateway call.
C11_EmptyInput ==
    /\ (ppc = "none" /\ Len(candidates) = 0) =>
         /\ CalledGateway = {}
         /\ tasks = <<>>
         /\ spc = "done" => finalResult = Success(<<>>)
    /\ (ppc # "none" /\ ~dataset.throws /\ dataset.candidates = <<>>) =>
         /\ CalledGateway = {}
         /\ spc = "none"
         /\ (ppc = "responded" /\ request.json /\ ValidBody(request)) =>
              nextResponse = ScoreResponse(<<>>, 0)

\* scoreCandidates has returned for an empty pool
C11_Witness ==
    /\ ppc = "none"
    /\ Len(candidates) = 0
    /\ spc = "done"
    /\ finalResult.success
    /\ finalResult.data = <<>>

\* the outcomes that are failures
Failed == {k \in 1..Len(results) : ~results[k].success}

\* C12: when no batch succeeds, scoreCandidates returns the failure that
\* carries the error of the failed batch of lowest index, whichever batch
\* failed first in time.
C12_TotalFailure ==
    (spc = "done" /\ Len(candidates) > 0 /\ Succeeded = {}) =>
        /\ Failed = 1..Len(batches)
        /\ ~finalResult.success
        /\ finalResult.error = results[1].error
        /\ results[1].batchIndex = 0
        /\ \A k \in Failed : results[k].batchIndex >= results[1].batchIndex

\* every batch failed, the second before the first and with another error
C12_Witness ==
    /\ spc = "done"
    /\ Len(results) >= 2
    /\ Succeeded = {}
    /\ settleOrder[1] = 2
    /\ results[1].error.type = "RATE_LIMIT"
    /\ results[2].error.type = "NETWORK_ERROR"
    /\ finalResult.error.type = "RATE_LIMIT"

Returned == IF retry.pc = "returned" THEN retry.value.candidates ELSE <<>>

\* C14: a response (structured or constrained) holding an item whose id is
\* the id of no candidate of the batch makes the mapping throw and the batch
\* fail; a successful batch outcome has one ScoredCandidate per item of the
\* response, each a candidate of the batch.
C14_UnknownId ==
    /\ (bpc = "done" /\ \E k \in 1..Len(Returned) : Returned[k].id \notin Ids(batch)) =>
         /\ ~outcome.success
         /\ outcome.error.type = "UNKNOWN_ERROR"
         /\ outcome = BatchResult(IF operation = "generateObject"
                                  THEN structured ELSE fallback, 0)
    /\ (bpc = "done" /\ outcome.success) =>
         /\ Len(outcome.data) = Len(Returned)
         /\ \A j \in 1..Len(outcome.data) :
              /\ outcome.data[j].id = Returned[j].id
              /\ \E c \in 1..Len(batch) :
                   /\ batch[c].id = outcome.data[j].id
                   /\ batch[c].name = outcome.data[j].name

\* the constrained response names a candidate of the batch and an unknown id
C14_Witness ==
    /\ bpc = "done"
    /\ operation = "generateText"
    /\ Len(Returned) = 2
    /\ Returned[1].id \in Ids(batch)
    /\ Returned[2].id = UnknownId
    /\ ~outcome.success
    /\ outcome.error.type = "UNKNOWN_ERROR"

\* the wave (0-based) of batch k
WaveOf(k) == (k - 1) \div 3

Started(k) == tasks[k].st # "pending"

Terminal(k) == tasks[k].st \in {"fulfilled", "rejected"}

\* C15: a batch of a later wave is started only when every batch of every
\* earlier wave is in a terminal state, and the outcomes of a wave are
\* collected only when all its batches are terminal, failed or not.
C15_WaveBarrier ==
    /\ \A j, k \in 1..Len(tasks) :
         (WaveOf(k) < WaveOf(j) /\ Started(j)) => Terminal(k)
    /\ \A k \in 1..Len(results) : Terminal(k)
    /\ spc = "pause" => \A k \in 1..Len(tasks) : Started(k) => Terminal(k)

\* a batch of the second wave runs; the first wave held a failure and successes
C15_Witness ==
    /\ Len(tasks) >= 4
    /\ tasks[4].st = "structured"
    /\ ~results[1].success
    /\ results[2].success
    /\ results[3].success

\* C16: whatever the outcomes of the other batches, every batch of the
\* current wave is started, and when scoreCandidates returns every batch has
\* been started and is in a terminal state.
C16_Isolation ==
    /\ spc = "wave" =>
         \A k \in 1..Len(batches) : (loopI < k /\ k <= loopI + 3) => Started(k)
    /\ (spc = "done" /\ Len(candidates) > 0) =>
         /\ Len(tasks) = Len(batches)
         /\ \A k \in 1..Len(batches) : Started(k) /\ Terminal(k)

\* the first batch failed; its sibling and the batch of the next wave scored
C16_Witness ==
    /\ spc = "done"
    /\ Len(batches) >= 4
    /\ ~results[1].success
    /\ results[1].error.type = "NETWORK_ERROR"
    /\ results[2].success
    /\ results[4].success
    /\ Len(results[4].data) >= 1

\* the batches started and not terminal
Running == {k \in 1..Len(tasks) : Started(k) /\ ~Terminal(k)}

\* C17: at most maxConcurrentBatches (3) batches are started and not
\* terminal at any time.
C17_BoundedConcurrency ==
    /\ Cardinality(Running) <= 3
    /\ DEFAULT_maxConcurrentBatches = 3

\* three batches of a pool of more than three run at once
C17_Witness ==
    /\ Len(batches) >= 4
    /\ Cardinality(Running) = 3

\* C18: every pause is 1000 ms; a pause lies between the end of a wave and
\* the start of the next, none follows the last wave, and a request of W >= 1
\* waves takes W - 1 pauses.
C18_Pacing ==
    /\ \A j \in 1..Len(pauses) : pauses[j] = 1000
    /\ \A k \in 1..Len(tasks) : Started(k) => Len(pauses) >= WaveOf(k)
    /\ spc = "wave" => Len(pauses) = loopI \div 3
    /\ spc = "pause" =>
         /\ Len(pauses) = loopI \div 3 + 1
         /\ loopI + 3 < Len(batches)
         /\ ~Started(loopI + 4)
    /\ (spc = "done" /\ Len(candidates) > 0) =>
         Len(pauses) = (Len(batches) + 2) \div 3 - 1

\* a request of two waves has returned after one pause
C18_Witness ==
    /\ spc = "done"
    /\ Len(batches) = 4
    /\ pauses = <<1000>>
    /\ Len(results) = 4

\* C19: the outcomes collected are those of the batches of the waves that
\* have ended, one per batch and at the batch's position; a failure carries
\* the index of its own batch, a success only candidates of its own batch;
\* when processParallelBatches returns there is one outcome per batch.
C19_OutcomeOrder ==
    /\ Len(results) <= Len(batches)
    /\ \A k \in 1..Len(results) :
         /\ Terminal(k)
         /\ tasks[k].st = "fulfilled" => results[k] = tasks[k].result
         /\ ~results[k].success => results[k].batchIndex = k - 1
         /\ results[k].success =>
              \A j \in 1..Len(results[k].data) :
                 results[k].data[j].id \in Ids(batches[k])
    /\ (spc = "done" /\ Len(candidates) > 0) => Len(results) = Len(batches)

\* three batches settled in the order 3, 1, 2; the third failed
C19_Witness ==
    /\ spc = "done"
    /\ Len(results) = 3
    /\ settleOrder = <<3, 1, 2>>
    /\ results[1].success /\ Len(results[1].data) >= 1
    /\ results[2].success
    /\ ~results[3].success

\* C20: a batch moves only from Pending (start) to the structured attempt,
\* from there to the fallback attempt or to a terminal state, and from the
\* fallback attempt to a terminal state; a terminal state and its outcome
\* never change; the fallback is entered once, with generateText, and
\* generateObject is not called again from then on.  (A batch whose model
\* cannot be resolved fails inside the structured call, before its first
\* await.)
C20_BatchStateMachine ==
    [][/\ bpc = "start" => bpc' \in {"start", "structured", "rejected"}
       /\ bpc = "structured" => bpc' \in {"structured", "fallback", "done"}
       /\ bpc = "fallback" => bpc' \in {"fallback", "done"}
       /\ bpc \in {"done", "rejected"} => (bpc' = bpc /\ outcome' = outcome)
       /\ (bpc # "fallback" /\ bpc' = "fallback") =>
            /\ fallback = NoResult
            /\ textCalls = 0
            /\ textCalls' = 1
            /\ operation' = "generateText"
       /\ bpc' = "fallback" => objectCalls' = objectCalls
       /\ (bpc # "done" /\ bpc' = "done") =>
            outcome'.success = (IF bpc = "fallback" THEN fallback'.success
                                ELSE structured'.success)]_vars

\* a batch that went through the fallback attempt and failed there
C20_Witness ==
    /\ bpc = "done"
    /\ ~structured.success
    /\ structured.error.type = "PARSE_ERROR"
    /\ fallback # NoResult
    /\ ~fallback.success
    /\ ~outcome.success
    /\ textCalls >= 1

\* C21: when the constrained strategy's generateText returns a text that
\* validatePromptResponse rejects, the batch ends failed with a PARSE_ERROR
\* whose rawResponse is exactly the returned text, and no further gateway
\* call is made for the batch.
C21_FallbackShapeFailure ==
    (/\ operation = "generateText"
     /\ retry.pc = "returned"
     /\ ~validatePromptResponse(retry.value).isValid) =>
        /\ bpc \in {"fallback", "done"}
        /\ opCalls = Len(opLog)
        /\ opLog[Len(opLog)] = [kind |-> "ok", value |-> retry.value]
        /\ textCalls = opCalls
        /\ bpc = "done" =>
              /\ ~outcome.success
              /\ outcome.error.type = "PARSE_ERROR"
              /\ outcome.error.rawResponse = retry.value
              /\ fallback = Failure(outcome.error)

\* a batch finished after its fallback text came back with a score of 101
C21_Witness ==
    /\ bpc = "done"
    /\ operation = "generateText"
    /\ retry.pc = "returned"
    /\ retry.value.hasCandidates
    /\ ~validatePromptResponse(retry.value).isValid
    /\ ~outcome.success
    /\ outcome.error.type = "PARSE_ERROR"

\* the shape as the property words it: JSON for an object with a `candidates`
\* list whose items have a string id, a numeric score in [0, 100], a
\* highlights list, a string reasoning and a matchedSkills list
ShapedItem(c) ==
    /\ c.js = WellTyped
    /\ c.score >= 0
    /\ c.score <= 100

Shaped(text) ==
    /\ text.json
    /\ text.root = "object"
    /\ text.hasCandidates
    /\ \A k \in 1..Len(text.candidates) : ShapedItem(text.candidates[k])

\* the same shape with an id and a reasoning that are not the empty string
ShapedNonEmpty(text) ==
    /\ Shaped(text)
    /\ \A k \in 1..Len(text.candidates) :
          /\ text.candidates[k].id # EmptyId
          /\ text.candidates[k].reasoning # ""

\* C22 as stated: validatePromptResponse returns valid if and only if the
\* text parses to an object with a `candidates` list in which every item has
\* a string id, a numeric score in [0, 100], a highlights list, a string
\* reasoning and a matchedSkills list.
C22_AsStated ==
    (shpc = "returned" /\ shStrategy = "fallback") =>
        (shValidation.isValid <=> Shaped(shValue))

\* C22, amended: for every text validatePromptResponse returns a result and
\* throws nothing; the result is valid if and only if the text parses to an
\* object with a `candidates` list in which every item has a non-empty string
\* id, a numeric score in [0, 100], a highlights list, a non-empty string
\* reasoning and a matchedSkills list; otherwise it is isValid = false with a
\* reason.
C22_ShapeValidation ==
    (shpc = "returned" /\ shStrategy = "fallback") =>
        /\ shValidation # NoValidation
        /\ shValidation.isValid <=> ShapedNonEmpty(shValue)
        /\ shValidation.isValid => shValidation.error = ""
        /\ ~shValidation.isValid => shValidation.error \notin {"", "none"}

\* a text whose second item is null: reading its id throws inside the try
\* block, and the result is invalid with a reason
C22_Witness ==
    /\ shpc = "returned"
    /\ shStrategy = "fallback"
    /\ Len(shValue.candidates) = 2
    /\ shValue.candidates[2].js.item = "null"
    /\ ~shValidation.isValid
    /\ shValidation.error = "Invalid JSON"

\* C23: every ScoredCandidate of a success result, whichever strategy
\* produced it, has a score in 0..100, at least one highlight, and a
\* reasoning text of at least 10 characters.
C23_ScoredCandidateInvariant ==
    (shpc = "returned" /\ shResult.success) =>
        \A k \in 1..Len(shResult.data) :
            /\ shResult.data[k].score >= 0
            /\ shResult.data[k].score <= 100
            /\ Len(shResult.data[k].highlights) >= 1
            /\ Len(shResult.data[k].reasoning) >= 10

\* the status each error tag is said to have
StatusTable ==
    [VALIDATION_ERROR |-> 400, RATE_LIMIT |-> 429, PARSE_ERROR |-> 502,
     NETWORK_ERROR |-> 503, QUOTA_EXCEEDED |-> 402, UNKNOWN_ERROR |-> 500]

\* C24: every failure response of the POST handler carries one error whose
\* tag determines the status code (VALIDATION_ERROR 400, RATE_LIMIT 429,
\* PARSE_ERROR 502, NETWORK_ERROR 503, QUOTA_EXCEEDED 402, UNKNOWN_ERROR 500);
\* no response pairs a tag with a different status.
C24_StatusMapping ==
    (ppc = "responded" /\ ~nextResponse.ok) =>
        /\ nextResponse.error.type \in DOMAIN StatusTable
        /\ nextResponse.status = StatusTable[nextResponse.error.type]

\* C25: for every request whose job description has fewer than 10 or more
\* than 200 characters, the POST handler answers VALIDATION_ERROR (400) and
\* neither loads candidates for scoring nor makes any LLM gateway call;
\* scoring starts only with a job description of 10..200 characters.
C25_BoundsPrecedeScoring ==
    /\ (request.json /\ (request.jdLen < 10 \/ request.jdLen > 200)) =>
          /\ ppc \in {"request", "responded"}
          /\ spc = "none"
          /\ candidates = <<>>
          /\ tasks = <<>>
          /\ ppc = "responded" =>
                /\ ~nextResponse.ok
                /\ nextResponse.status = 400
                /\ nextResponse.error.type = "VALIDATION_ERROR"
    /\ (ppc # "none" /\ spc # "none") =>
          (request.jdLen >= 10 /\ request.jdLen <= 200)

\* a job description of 201 characters answered 400 although the dataset
\* holds candidates and every other field of the body is valid
C25_Witness ==
    /\ ppc = "responded"
    /\ request.jdLen = 201
    /\ request.maxResults = 2
    /\ Len(dataset.candidates) > 0
    /\ nextResponse.status = 400
    /\ nextResponse.error.type = "VALIDATION_ERROR"
    /\ spc = "none"

\* all five criteria are supplied
FiveGiven(w) == w.given /\ \A c \in Criteria : w[c] # Absent

\* C26: a custom weight set whose five fractions sum to 1 within 0.001 is
\* accepted unchanged, and one whose sum is out of tolerance (for example
\* 0.8) is rejected as a validation error before any scoring attempt; it is
\* never passed on to scoring or silently corrected.
C26_WeightsTolerance ==
    /\ (/\ ppc = "scoring"
        /\ FiveGiven(request.weights)
        /\ ScoringWeightsSchema(request.weights)) => weights = request.weights
    /\ (/\ request.json
        /\ FiveGiven(request.weights)
        /\ ~ScoringWeightsSchema(request.weights)) =>
          /\ ppc \in {"request", "responded"}
          /\ spc = "none"
          /\ weights = NoWeights
          /\ ppc = "responded" =>
                /\ ~nextResponse.ok
                /\ nextResponse.error.type = "VALIDATION_ERROR"

\* the default percentages 40/25/15/10/10, in the order of the prompt
DefaultPercents == <<40, 25, 15, 10, 10>>

PromptOrder ==
    <<"skillsMatch", "experienceLevel", "education", "portfolio", "availability">>

\* the percentage (in ten-thousandths of a percent) the prompt is to state
\* for criterion j of the weights w as they were supplied
StatedPercent(w, j) ==
    IF w[PromptOrder[j]] = Absent THEN DefaultPercents[j] * One
    ELSE w[PromptOrder[j]] * 100

\* C27: when custom weights are supplied, the structured prompt states each
\* of the five criteria with exactly the supplied fraction (as a percentage),
\* including a supplied fraction of 0; the defaults 40/25/15/10/10 are used
\* only for a criterion that was not supplied.
C27_WeightsReachPrompt ==
    \A k \in 1..Len(tasks) :
        (tasks[k].st = "structured" /\ weights.given) =>
            /\ tasks[k].prompt.kind = "scoring"
            /\ tasks[k].prompt.weightsText =
                  [j \in 1..5 |->
                     StatedPercent(IF ppc = "none" THEN weights ELSE request.weights, j)]

\* a ScoringResult: success with data, or failure with one ScoringError
IsScoringResult(r) ==
    \/ r.success /\ DOMAIN r = {"success", "data"}
    \/ ~r.success /\ DOMAIN r = {"success", "error"} /\ r.error.type \in ErrorTypes

EnrichedFrom(sc, pool) ==
    \E j \in 1..Len(pool) :
        /\ pool[j].id = sc.id
        /\ \A f \in DOMAIN pool[j] : f \in DOMAIN sc /\ sc[f] = pool[j][f]

\* C29: every ScoredCandidate in a result has all Candidate fields equal to
\* those of the pool candidate with the same id, and scoring leaves the input
\* pool and the cached candidate collection unchanged.
C29_OnlyEnriched ==
    /\ (spc = "done" /\ finalResult.success) =>
          \A k \in 1..Len(finalResult.data) :
              EnrichedFrom(finalResult.data[k], candidates)
    /\ \A r \in 1..Len(results) :
          results[r].success =>
              \A k \in 1..Len(results[r].data) :
                  EnrichedFrom(results[r].data[k], candidates)
    /\ (ppc = "responded" /\ nextResponse.ok) =>
          \A k \in 1..Len(nextResponse.candidates) :
              EnrichedFrom(nextResponse.candidates[k], dataset.candidates)
    /\ candidates = [k \in 1..Len(candidates) |-> Candidate(k)]
    /\ dataset.candidates = [k \in 1..Len(dataset.candidates) |-> Candidate(k)]
    /\ (ppc \in {"scoring", "responded"} /\ spc # "none") =>
          candidates = dataset.candidates

\* a request answered with both candidates of the dataset, scored
C29_Witness ==
    /\ ppc = "responded"
    /\ nextResponse.ok
    /\ Len(dataset.candidates) = 2
    /\ Len(nextResponse.candidates) = 2
    /\ nextResponse.candidates[1].id # nextResponse.candidates[2].id
    /\ candidates = <<Candidate(1), Candidate(2)>>

\* five minutes, in milliseconds
FiveMinutes == 5 * 60 * 1000

\* C30: getCandidates returns the cached collection without reloading if and
\* only if a collection is cached and less than 5 minutes have passed since
\* it was loaded; otherwise it reloads and replaces the whole cached
\* collection and its load time together; after invalidateCandidatesCache
\* the next getCandidates always reloads.
C30_CandidateCache ==
    lastCall.kind = "get" =>
        LET reloaded == loads = lastCall.loadsBefore + 1
            cached == /\ lastCall.cacheBefore.loaded
                      /\ lastCall.at - lastCall.loadTimeBefore < FiveMinutes
        IN  /\ loads \in {lastCall.loadsBefore, lastCall.loadsBefore + 1}
            /\ ~reloaded <=> cached
            /\ ~reloaded =>
                  /\ ~lastCall.threw
                  /\ lastCall.returned = lastCall.cacheBefore.data
                  /\ candidatesCache = lastCall.cacheBefore
                  /\ lastLoadTime = lastCall.loadTimeBefore
            /\ (reloaded /\ ~lastCall.threw) =>
                  /\ candidatesCache = [loaded |-> TRUE,
                                        data |-> lastCall.file.candidates]
                  /\ lastLoadTime = lastCall.at
                  /\ lastCall.returned = lastCall.file.candidates
            /\ (reloaded /\ lastCall.threw) =>
                  /\ candidatesCache = lastCall.cacheBefore
                  /\ lastLoadTime = lastCall.loadTimeBefore
            /\ lastCall.afterInvalidate => reloaded

\* a collection loaded exactly five minutes ago is reloaded, and the new
\* collection differs from the one it replaces
C30_Witness ==
    /\ lastCall.kind = "get"
    /\ lastCall.cacheBefore.loaded
    /\ lastCall.at - lastCall.loadTimeBefore = FiveMinutes
    /\ loads = lastCall.loadsBefore + 1
    /\ candidatesCache.loaded
    /\ candidatesCache.data # lastCall.cacheBefore.data
    /\ lastLoadTime = lastCall.at

\* the scored list: the data of the successful batches, in batch order
ScoredList ==
    Concat([k \in 1..Len(results) |->
              IF results[k].success THEN results[k].data ELSE <<>>])

\* the items of cs that score sc, in their order in cs
WithScore(cs, sc) == SelectSeq(cs, LAMBDA x : x.score = sc)

\* C31: in a success result two ScoredCandidates of equal score are in the
\* same relative order as in the concatenated scored list (batch index
\* first, position in the batch's response second): per score, the result
\* holds the first items of the scored list, in the list's order.
C31_TieBreakStability ==
    (spc = "done" /\ finalResult.success) =>
        \A sc \in {finalResult.data[k].score : k \in 1..Len(finalResult.data)} :
            LET kept == WithScore(finalResult.data, sc)
            IN  kept = SubSeq(WithScore(ScoredList, sc), 1, Len(kept))

\* candidates 1 and 3, of two batches, tie below candidate 2: the result
\* lists 2, then 1 before 3
C31_Witness ==
    /\ spc = "done"
    /\ finalResult.success
    /\ Len(finalResult.data) = 3
    /\ Len(results) >= 2
    /\ finalResult.data[1].id = 2
    /\ finalResult.data[2].id = 1
    /\ finalResult.data[3].id = 3
    /\ finalResult.data[2].score = finalResult.data[3].score
    /\ finalResult.data[1].score > finalResult.data[2].score

\* the kind the stated precedence gives a thrown value
KindByPrecedence(e) ==
    IF e.isObject /\ e.status = 429 THEN "RATE_LIMIT"
    ELSE IF e.isObject /\ (e.status = 402 \/ e.code = "insufficient_quota")
    THEN "QUOTA_EXCEEDED"
    ELSE IF e.isObject /\ e.code \in {"ECONNREFUSED", "ENOTFOUND", "TIMEOUT"}
    THEN "NETWORK_ERROR"
    ELSE IF e.isObject /\ (e.name = "ZodError" \/ e.issues)
    THEN "VALIDATION_ERROR"
    ELSE IF e.isObject /\ e.name = "SyntaxError" /\ e.jsonMsg
    THEN "PARSE_ERROR"
    ELSE "UNKNOWN_ERROR"

\* C32: mapErrorToScoringError is total and deterministic: every thrown
\* value maps to exactly one of the six kinds, by the precedence 429, then
\* 402 or insufficient_quota, then the network codes, then ZodError or
\* issues, then a SyntaxError mentioning JSON, else UNKNOWN_ERROR.
C32_ClosedClassification ==
    clpc = "ended" =>
        /\ ~clResult.threw
        /\ clResult.value.type \in ErrorTypes
        /\ clResult.value.type = KindByPrecedence(clError)

\* C32 for thrown values whose message is a string or missing
C32_StringMessages ==
    (clpc = "ended" /\ clError.message # "other") =>
        /\ ~clResult.threw
        /\ clResult.value.type \in ErrorTypes
        /\ clResult.value.type = KindByPrecedence(clError)

\* the attempts of one retryWithBackoff call with the default maxRetries
maxAttempts == DEFAULT_maxRetries + 1

\* C33: a generateText call happens only after the structured call has
\* failed maxAttempts times in a row, the last time with a parse-class error;
\* no structured call follows a text call; a batch makes at most
\* 2 * maxAttempts gateway calls.
C33_FallbackAfterExhaustion ==
    /\ [](/\ objectCalls + textCalls <= 2 * maxAttempts
          /\ textCalls >= 1 =>
                /\ objectCalls = maxAttempts
                /\ ~structured.success
                /\ structured.error.type = "PARSE_ERROR")
    /\ [][/\ textCalls >= 1 => objectCalls' = objectCalls
          /\ (textCalls = 0 /\ textCalls' >= 1) =>
                /\ Len(opLog) = maxAttempts
                /\ Failures(opLog) = 1..maxAttempts
                /\ opLog[maxAttempts].kind = "parse"]_vars

\* a batch that made all 2 * maxAttempts gateway calls
C33_Witness ==
    /\ bpc = "done"
    /\ objectCalls = maxAttempts
    /\ textCalls = maxAttempts
    /\ ~outcome.success

\* C34: whether a batch falls back is decided by the error of the final
\* structured attempt alone: a final parse-class error starts the fallback
\* whatever the earlier attempts failed with, and a final status 429 ends the
\* batch with RATE_LIMIT and no fallback even after parse-class errors.
C34_LastErrorDecides ==
    [][(bpc = "structured" /\ bpc' # "structured") =>
          /\ (bpc' = "fallback") <=> (opLog[Len(opLog)].kind = "parse")
          /\ bpc' = "fallback" => textCalls' = textCalls + 1
          /\ opLog[Len(opLog)].kind = "429" =>
                /\ bpc' = "done"
                /\ textCalls' = 0
                /\ ~outcome'.success
                /\ outcome'.error.type = "RATE_LIMIT"]_vars

\* parse-class errors first, status 429 last: the batch ended without a
\* text call
C34_Witness ==
    /\ bpc = "done"
    /\ textCalls = 0
    /\ Len(opLog) = maxAttempts
    /\ \A k \in 1..(maxAttempts - 1) : opLog[k].kind = "parse"
    /\ opLog[maxAttempts].kind = "429"
    /\ ~outcome.success
    /\ outcome.error.type = "RATE_LIMIT"

\* status 429 first, a parse-class error last: the fallback was started
C34_WitnessFallback ==
    /\ bpc = "fallback"
    /\ textCalls = 1
    /\ ~structured.success
    /\ structured.error.type = "PARSE_ERROR"

\* the outcome of batch k, as its own task left it
OutcomeOfBatch(k) ==
    IF tasks[k].st = "fulfilled" THEN tasks[k].result
    ELSE [success |-> FALSE, error |-> ScoringError("UNKNOWN_ERROR"),
          batchIndex |-> k - 1]

\* the value the request returns, told from the outcomes of the batches in
\* the order of the batches alone
ReturnInBatchOrder ==
    LET os == [k \in 1..Len(tasks) |-> OutcomeOfBatch(k)]
        failed == {k \in 1..Len(tasks) : ~os[k].success}
        scored == ScoredCandidatesOf(os)
    IN  IF scored = <<>>
        THEN Failure(IF failed = {} THEN ScoringError("UNKNOWN_ERROR")
                     ELSE os[CHOOSE k \in failed : \A j \in failed : k <= j].error)
        ELSE Success(Slice(SortByScore(scored), 0, maxResults))

\* C35: for a fixed pool, batch size, maxResults and per-batch behaviour,
\* the value scoreCandidates returns (the list with its tie order, or the
\* error) is a function of the batches' outcomes in batch order, whatever
\* the order in which the batches of a wave ran and settled.
C35_OrderIndependence ==
    (spc = "done" /\ Len(candidates) > 0) => finalResult = ReturnInBatchOrder

\* the second batch settled before the first, each scored its candidate
\* the same: the first batch's candidate is returned first
C35_Witness ==
    /\ spc = "done"
    /\ settleOrder = <<2, 1>>
    /\ finalResult.success
    /\ Len(finalResult.data) = 2
    /\ finalResult.data[1].score = finalResult.data[2].score
    /\ finalResult.data[1].id \in Ids(batches[1])
    /\ finalResult.data[2].id \in Ids(batches[2])

\* C36: a success outcome holds exactly one ScoredCandidate for each
\* candidate of its batch (none missing, no id twice), so that no candidate
\* id occurs more than once in the final result.
C36_SuccessCoversBatch ==
    /\ \A k \in 1..Len(results) :
         results[k].success =>
             /\ Len(results[k].data) = Len(batches[k])
             /\ {results[k].data[j].id : j \in 1..Len(results[k].data)}
                    = Ids(batches[k])
    /\ (spc = "done" /\ finalResult.success) =>
         \A i1, i2 \in 1..Len(finalResult.data) :
            finalResult.data[i1].id = finalResult.data[i2].id => i1 = i2

\* the gateway calls of a settled retryWithBackoff loop: one per attempt
CallsOf(rs) == IF rs.pc = "returned" THEN rs.attempt + 1 ELSE rs.attempt

\* the most gateway calls one strategy run can make for batch b
MostCalls(strategy, b) ==
    LET op == IF strategy = "structured" THEN "generateObject" ELSE "generateText"
        settled == RetrySettled({RetryStart(DEFAULT_maxRetries)},
                                WaveValues(op, b), WaveErrors, DEFAULT_maxRetries)
    IN  CHOOSE n \in {CallsOf(rs) : rs \in settled} :
            \A rs \in settled : CallsOf(rs) <= n

\* MostCalls, computed once per batch
MostCallsTable ==
    [b \in PossibleBatches |->
        [strategy \in {"structured", "fallback"} |-> MostCalls(strategy, b)]]

\* the most gateway calls the task of batch k can have made: none before it
\* starts or when it rejects at once, those of the structured run while it
\* is the only run, those of both runs from the fallback on
MostCallsOfTask(k) ==
    IF tasks[k].st \in {"pending", "rejected"} THEN 0
    ELSE IF tasks[k].st = "structured" THEN MostCallsTable[batches[k]].structured
    ELSE MostCallsTable[batches[k]].structured + MostCallsTable[batches[k]].fallback

RECURSIVE MostCallsUpTo(_)
MostCallsUpTo(n) == IF n = 0 THEN 0 ELSE MostCallsOfTask(n) + MostCallsUpTo(n - 1)

\* C37: for every pool and batch size >= 1, when every gateway call settles
\* and every timer fires, scoreCandidates eventually returns with every
\* batch in a terminal state, and the request never makes more than
\* ceil(N/B) * 2 * maxAttempts gateway calls.
C37_Termination ==
    /\ (spc = "start") ~>
          (spc = "done" /\ Len(results) = Ceil(Len(candidates), batchSize)
                        /\ \A k \in 1..Len(tasks) : Terminal(k))
    /\ [](spc # "none" =>
            /\ Len(tasks) <= Ceil(Len(candidates), batchSize)
            /\ MostCallsUpTo(Len(tasks))
                  <= Ceil(Len(candidates), batchSize) * 2 * maxAttempts)

\* a request of two waves has returned; a batch of each wave went through
\* both strategies
C37_Witness ==
    /\ spc = "done"
    /\ Len(tasks) = 4
    /\ pauses # <<>>
    /\ \A k \in 1..Len(tasks) : Terminal(k)
    /\ ~results[1].success /\ results[1].error.type = "PARSE_ERROR"
    /\ ~results[4].success /\ results[4].error.type = "PARSE_ERROR"

\* C37, one batch: with every gateway call settling and every timer firing,
\* processBatch ends, after at most 2 * maxAttempts gateway calls
C37_BatchTerminates ==
    /\ <>(bpc \in {"done", "rejected"})
    /\ [](objectCalls + textCalls <= 2 * maxAttempts)

\* the batches whose processBatch promise rejected
Rejected == {k \in 1..Len(tasks) : tasks[k].st = "rejected"}

\* C38: a batch task that throws instead of returning (the model cannot be
\* resolved) still gets exactly one failure outcome, at its own batch index
\* and with the classified error (UNKNOWN_ERROR); the other batches of its
\* wave and the batches of all later waves are still started and get their
\* outcomes.
C38_RejectedTask ==
    /\ \A k \in Rejected :
          k <= Len(results) =>
              /\ ~results[k].success
              /\ results[k].batchIndex = k - 1
              /\ results[k].error.type = "UNKNOWN_ERROR"
              /\ Cardinality({j \in 1..Len(results) :
                                ~results[j].success /\ results[j].batchIndex = k - 1}) = 1
    /\ (spc = "done" /\ Rejected # {}) =>
          /\ Len(results) = Len(batches)
          /\ \A k \in 1..Len(tasks) : Started(k) /\ Terminal(k)
    /\ (spc \in {"pause", "done"} /\ Rejected # {}) =>
          \A k \in Wave(loopI, Len(batches)) : Started(k) /\ k <= Len(results)

\* four rejected batches in two waves: each has its own failure outcome
C38_Witness ==
    /\ spc = "done"
    /\ Len(batches) = 4
    /\ Rejected = 1..4
    /\ pauses # <<>>
    /\ \A k \in 1..4 : ~results[k].success /\ results[k].batchIndex = k - 1

\* C39: when getCandidates has to reload and the load throws, the error
\* reaches the caller, the cached collection and its load time keep the
\* values they had before the call, and the cache is still not fresh, so the
\* next getCandidates reloads again.
C39_FailedReload ==
    lastCall.kind = "get" =>
        /\ lastCall.threw <=>
              (loads = lastCall.loadsBefore + 1 /\ lastCall.file.throws)
        /\ lastCall.threw =>
              /\ candidatesCache = lastCall.cacheBefore
              /\ lastLoadTime = lastCall.loadTimeBefore
              /\ lastCall.returned = <<>>
              /\ ~(candidatesCache.loaded /\ now - lastLoadTime < FiveMinutes)

\* a reload over a stale collection threw, and time has passed since: the
\* stale collection and its load time are still there
C39_Witness ==
    /\ lastCall.kind = "get"
    /\ lastCall.threw
    /\ lastCall.cacheBefore.loaded
    /\ lastCall.cacheBefore.data # <<>>
    /\ candidatesCache = lastCall.cacheBefore
    /\ lastLoadTime = lastCall.loadTimeBefore
    /\ now > lastCall.at

\* C40: after any sequence of scoreCandidate and updateJobDescription calls,
\* overlapping or not, the state never has both error and results non-null,
\* and isLoading is true exactly while at least one request is in flight.
C40_HookState ==
    /\ ~(~state.error.isNull /\ ~state.results.isNull)
    /\ state.isLoading <=> (Pending # {})

\* C40, first half: error and results are never both non-null
C40_ErrorOrResults ==
    ~(~state.error.isNull /\ ~state.results.isNull)

\* C40, second half: isLoading follows the requests in flight
C40_LoadingWhileInFlight ==
    state.isLoading <=> (Pending # {})
====
